---- MODULE Spec2Model ----
(***************************************************************************)
(* Verification model of the EnerGency stress-scoring pipeline:            *)
(* the disaster, energy and migration scorers, the overall combiner of     *)
(* fetchEmergencyMetrics, the tiering cascades, the forecast, the          *)
(* real-data path from the FEMA requests to the enriched counties, the     *)
(* map with its layers, time slider and colours, the layer panel and the   *)
(* TimeSlider on their own, the migration aggregation by state, and the    *)
(* cache of loadEnergyData.                                                *)
(*                                                                         *)
(* JavaScript numbers are modelled as exact rationals [n, d] with d > 0,   *)
(* in lowest terms, plus the value NaN, written [n |-> 0, d |-> 0].        *)
(* Time is counted in units of 1/UnitsPerYear of a 365-day year.           *)
(***************************************************************************)
EXTENDS Integers, Sequences, FiniteSets, TLC

VARIABLES now, args, ret, prevRet, fetched, metrics, realData, view, ui,
          cache, slider

vars == <<now, args, ret, prevRet, fetched, metrics, realData, view, ui, cache, slider>>

(***************************************************************************)
(* Bounds of the model.                                                    *)
(***************************************************************************)
MaxTicks == 2
MaxDecl == 12
MaxDemand == 3

(***************************************************************************)
(* JavaScript number arithmetic.                                           *)
(***************************************************************************)
RECURSIVE Gcd(_, _)
Gcd(a, b) == IF b = 0 THEN a ELSE Gcd(b, a % b)

AbsInt(i) == IF i < 0 THEN -i ELSE i

NaN == [n |-> 0, d |-> 0]

IsNaN(x) == x.d = 0

\* the rational p/q, q # 0, in lowest terms with a positive denominator
Rat(p, q) ==
  LET g == Gcd(AbsInt(p), AbsInt(q))
      s == IF q < 0 THEN -1 ELSE 1
  IN [n |-> s * (p \div g), d |-> s * (q \div g)]

R(i) == [n |-> i, d |-> 1]

Add(x, y) == IF IsNaN(x) \/ IsNaN(y) THEN NaN
             ELSE Rat(x.n * y.d + y.n * x.d, x.d * y.d)

Sub(x, y) == IF IsNaN(x) \/ IsNaN(y) THEN NaN
             ELSE Rat(x.n * y.d - y.n * x.d, x.d * y.d)

Mul(x, y) == IF IsNaN(x) \/ IsNaN(y) THEN NaN
             ELSE Rat(x.n * y.n, x.d * y.d)

\* x / y; the modelled code divides only by non-zero values (0/0 is NaN)
Div(x, y) == IF IsNaN(x) \/ IsNaN(y) \/ y.n = 0 THEN NaN
             ELSE Rat(x.n * y.d, x.d * y.n)

\* comparisons are false as soon as one side is NaN
Lt(x, y) == ~IsNaN(x) /\ ~IsNaN(y) /\ x.n * y.d < y.n * x.d
Ge(x, y) == ~IsNaN(x) /\ ~IsNaN(y) /\ x.n * y.d >= y.n * x.d
Gt(x, y) == Lt(y, x)
Le(x, y) == Ge(y, x)

MathMin(x, y) == IF IsNaN(x) \/ IsNaN(y) THEN NaN
                 ELSE IF Lt(y, x) THEN y ELSE x

MathMax(x, y) == IF IsNaN(x) \/ IsNaN(y) THEN NaN
                 ELSE IF Gt(y, x) THEN y ELSE x

MathAbs(x) == IF IsNaN(x) THEN NaN ELSE [n |-> AbsInt(x.n), d |-> x.d]

InRange0to100(x) == Ge(x, R(0)) /\ Le(x, R(100))

(***************************************************************************)
(* Dates.  A date string is [valid, t]: new Date(s).getTime() is t when    *)
(* the string parses and NaN when it does not.                             *)
(***************************************************************************)
UnitsPerYear == 2

DateGetTime(s) == IF s.valid THEN R(s.t) ELSE NaN

(***************************************************************************)
(* femaData.ts: calculateDisasterRiskScore                                 *)
(***************************************************************************)
RecencyWeightNoFloor(yearsAgo) == Sub(R(1), Div(yearsAgo, R(10)))

\* Math.max(0, 1 - (yearsAgo / 10))
RecencyWeight(yearsAgo) == MathMax(R(0), Sub(R(1), Div(yearsAgo, R(10))))

YearsAgo(d, nowTime) ==
  Div(Sub(R(nowTime), DateGetTime(d.declarationDate)), R(UnitsPerYear))

\* weights.reduce((sum, w) => sum + w, 0)
RECURSIVE SumWeights(_, _, _)
SumWeights(declarations, i, nowTime) ==
  IF i = 0 THEN R(0)
  ELSE Add(SumWeights(declarations, i - 1, nowTime),
           RecencyWeight(YearsAgo(declarations[i], nowTime)))

UniqueTypesCountsRepeats(declarations) ==
  Len(declarations)
  - Cardinality({declarations[i].incidentType : i \in 1..Len(declarations)})

UniqueTypes(declarations) ==
  Cardinality({declarations[i].incidentType : i \in 1..Len(declarations)})

calculateDisasterRiskScore(declarations, nowTime) ==
  IF Len(declarations) = 0 THEN R(0)
  ELSE LET weightedCount == SumWeights(declarations, Len(declarations), nowTime)
           uniqueTypes == UniqueTypes(declarations)
           frequencyScore == Mul(MathMin(Div(weightedCount, R(10)), R(1)), R(60))
           diversityScore == Mul(MathMin(Div(R(uniqueTypes), R(5)), R(1)), R(40))
       IN Add(frequencyScore, diversityScore)

(***************************************************************************)
(* energyDemandData.ts: calculatePeakDemand, calculateEnergyStressScore    *)
(***************************************************************************)
RECURSIVE MaxDemandOf(_, _)
MaxDemandOf(demands, i) ==
  IF i = 1 THEN demands[1].demand
  ELSE LET m == MaxDemandOf(demands, i - 1)
       IN IF demands[i].demand > m THEN demands[i].demand ELSE m

RECURSIVE SumDemand(_, _)
SumDemand(demands, i) ==
  IF i = 0 THEN 0 ELSE SumDemand(demands, i - 1) + demands[i].demand

calculatePeakDemand(demands) ==
  IF Len(demands) = 0 THEN [peak |-> R(0), average |-> R(0)]
  ELSE [peak |-> R(MaxDemandOf(demands, Len(demands))),
        average |-> Rat(SumDemand(demands, Len(demands)), Len(demands))]

RatioScore(demands) ==
  LET pd == calculatePeakDemand(demands)
      peakRatio == IF Gt(pd.average, R(0)) THEN Div(pd.peak, pd.average) ELSE R(1)
  IN MathMin(Mul(Sub(peakRatio, R(1)), R(50)), R(40))

BurdenScore(costs) == MathMin(Mul(costs.totalEnergyBurden, R(5)), R(60))

calculateEnergyStressScore(demands, costs) ==
  Add(RatioScore(demands), BurdenScore(costs))

(***************************************************************************)
(* censusData.ts: calculateNetMigration, calculateMigrationStressScore     *)
(***************************************************************************)
RECURSIVE SumReturns(_, _, _, _)
SumReturns(migrationData, i, field, countyFips) ==
  IF i = 0 THEN 0
  ELSE SumReturns(migrationData, i - 1, field, countyFips)
       + (IF migrationData[i][field] = countyFips
          THEN migrationData[i].numberOfReturns ELSE 0)

calculateNetMigration(countyFips, migrationData) ==
  LET inMigration ==
        SumReturns(migrationData, Len(migrationData), "destinationCounty", countyFips)
      outMigration ==
        SumReturns(migrationData, Len(migrationData), "originCounty", countyFips)
  IN [inMigration |-> inMigration, outMigration |-> outMigration,
      netMigration |-> inMigration - outMigration]

SaturatingStressHalf(migrationRate) ==
  MathMin(Mul(MathAbs(migrationRate), R(5)), R(100))

\* Math.min(Math.abs(migrationRate) * 10, 100)
SaturatingStress(migrationRate) ==
  MathMin(Mul(MathAbs(migrationRate), R(10)), R(100))

calculateMigrationStressScore(netMigration, totalPopulation) ==
  IF totalPopulation.n = 0 /\ ~IsNaN(totalPopulation) THEN R(0)
  ELSE LET migrationRate == Mul(Div(netMigration, totalPopulation), R(100))
       IN IF Ge(migrationRate, R(0)) THEN R(0)
          ELSE SaturatingStress(migrationRate)

(***************************************************************************)
(* Tiering cascades and the seasonal adjustment of the forecast.           *)
(***************************************************************************)
\* emergencyMetricsAggregator.ts, "Determine stress level"
MetricsStressLevel(overallStressScore) ==
  IF Ge(overallStressScore, R(75)) THEN "Critical"
  ELSE IF Ge(overallStressScore, R(50)) THEN "High"
  ELSE IF Ge(overallStressScore, R(25)) THEN "Moderate"
  ELSE "Low"

RealDataStressLevelStrict(overallStressScore) ==
  IF Gt(overallStressScore, R(75)) THEN "Critical"
  ELSE IF Gt(overallStressScore, R(50)) THEN "High"
  ELSE IF Gt(overallStressScore, R(25)) THEN "Moderate"
  ELSE "Low"

\* realDataAggregator.ts, "Determine stress level"
RealDataStressLevel(overallStressScore) ==
  IF Ge(overallStressScore, R(75)) THEN "Critical"
  ELSE IF Ge(overallStressScore, R(50)) THEN "High"
  ELSE IF Ge(overallStressScore, R(25)) THEN "Moderate"
  ELSE "Low"

\* RealMapView.tsx
getForecastLevel(score) ==
  IF Ge(score, R(75)) THEN "Critical"
  ELSE IF Ge(score, R(50)) THEN "High"
  ELSE IF Ge(score, R(25)) THEN "Moderate"
  ELSE "Low"

\* Date.prototype.getMonth(): January is 0; a date is [year, month], month 1..12
DateGetMonth(date) == date.month - 1

getSeasonalAdjustmentHalfOpen(date) ==
  LET month == DateGetMonth(date)
  IN IF month >= 5 /\ month < 9 THEN 12
     ELSE IF month = 11 \/ month <= 1 THEN 9
     ELSE 5

getSeasonalAdjustment(date) ==
  LET month == DateGetMonth(date)
  IN IF month >= 5 /\ month <= 9 THEN 12
     ELSE IF month = 11 \/ month <= 1 THEN 9
     ELSE 5

\* Date.prototype.getFullYear()
DateGetFullYear(date) == date.year

\* RealMapView.tsx: Math.max(0, Math.min(100, value))
clampScore(value) == MathMax(R(0), MathMin(R(100), value))

getForecastScoreUncappedMomentum(county, currentDate) ==
  LET base == county.emergencyMetrics.overallStressScore
      seasonal == R(getSeasonalAdjustment(currentDate))
      trend == Mul(R(DateGetFullYear(currentDate) - 2020), Rat(3, 2))
      disasterMomentum == Mul(R(county.emergencyMetrics.disasterCount), Rat(4, 5))
  IN clampScore(Add(Add(Add(base, seasonal), trend), disasterMomentum))

\* RealMapView.tsx: the forecast of a county at the date of the time slider
getForecastScore(county, currentDate) ==
  LET base == county.emergencyMetrics.overallStressScore
      seasonal == R(getSeasonalAdjustment(currentDate))
      trend == Mul(R(DateGetFullYear(currentDate) - 2020), Rat(3, 2))
      disasterMomentum ==
        MathMin(Mul(R(county.emergencyMetrics.disasterCount), Rat(4, 5)), R(10))
  IN clampScore(Add(Add(Add(base, seasonal), trend), disasterMomentum))

(***************************************************************************)
(* Inputs of the scorer calls.                                             *)
(***************************************************************************)
IncidentTypes ==
  <<"Hurricane", "Severe Storm", "Flood", "Fire", "Tornado", "Winter Storm">>

\* declaration dates, in time units relative to the initial clock value 0:
\* 21 years old, exactly 10 years old, just under 10, 5 years, 1 year, now,
\* in the future, and a string that does not parse
DateStrings ==
  << [valid |-> TRUE, t |-> -42], [valid |-> TRUE, t |-> -20],
     [valid |-> TRUE, t |-> -19], [valid |-> TRUE, t |-> -10],
     [valid |-> TRUE, t |-> -2],  [valid |-> TRUE, t |-> 0],
     [valid |-> TRUE, t |-> 3],   [valid |-> FALSE, t |-> 0] >>

Declaration(state, county, type, date) ==
  [state |-> state, county |-> county, incidentType |-> type,
   declarationDate |-> date]

\* a list of n declarations whose types advance by typeStep and whose dates
\* advance by dateStep through DateStrings, starting at dateBase
DeclarationList(n, typeStep, dateBase, dateStep, state, county) ==
  [i \in 1..n |->
     Declaration(state, county,
                 IncidentTypes[(((i - 1) * typeStep) % Len(IncidentTypes)) + 1],
                 DateStrings[((dateBase - 1 + (i - 1) * dateStep) % Len(DateStrings)) + 1])]

DeclarationLists ==
  { DeclarationList(n, ts, db, ds, "TX", "County 1") :
      n \in 0..MaxDecl, ts \in 0..1, db \in 1..Len(DateStrings), ds \in 0..1 }

DemandValues == {-1000, 0, 1000, 2000}

EnergyDemand(state, demand) == [state |-> state, demand |-> demand]

RECURSIVE SeqsUpTo(_, _)
SeqsUpTo(S, n) ==
  IF n = 0 THEN {<<>>}
  ELSE LET shorter == SeqsUpTo(S, n - 1)
       IN shorter \cup {Append(q, x) : q \in shorter, x \in S}

DemandLists == SeqsUpTo({EnergyDemand("TX", v) : v \in DemandValues}, MaxDemand)

BurdenValues == {R(-2), R(0), Rat(9, 10), R(4), R(8), R(12), R(20)}

CoolingWarmingCosts(state, county, burden) ==
  [state |-> state, county |-> county, totalEnergyBurden |-> burden]

NetMigrationValues == {-5000, -2000, -1000, -1, 0, 1000}

PopulationValues == {-20000, 0, 20000, 50000}

ScoreValues == {Rat(k, 4) : k \in -4..404} \cup {NaN}

ForecastDates == [year : {2020, 2026}, month : 1..12]

\* the dates between minDate 2020-01-01 and maxDate 2035-12-31 of the time
\* slider, to the month
SliderDates == [year : 2020..2035, month : 1..12]

ForecastBases == {R(-20), R(0), R(50), Rat(151, 2), R(100)}

DisasterCounts == {0, 1, 12, 13, 40}

\* the fields of an enriched county that the forecast reads
ForecastCounty(overallStressScore, disasterCount) ==
  [emergencyMetrics |-> [overallStressScore |-> overallStressScore,
                         disasterCount |-> disasterCount]]

\* sub-scores: a negative one, tier boundaries, the ends of the range and NaN
SubScoreValues == {R(-10), R(0), R(50), Rat(125, 2), R(75), R(100), NaN}

SubScoreTriples ==
  [disaster : SubScoreValues, energy : SubScoreValues, migration : SubScoreValues]

\* a triple, one of its sub-scores and a greater number to raise it to
Raises ==
  { q \in SubScoreTriples \X {"disaster", "energy", "migration"}
           \X (SubScoreValues \ {NaN}) : Lt(q[1][q[2]], q[3]) }

TypeSteps == 0..3

\* the number of distinct incident types of a list
DistinctTypes(declarations) ==
  Cardinality({declarations[i].incidentType : i \in 1..Len(declarations)})

\* the choropleth layers whose value has a level label
LabelledLayers == {"county-choropleth", "forecast-pressure"}

ArgSet ==
  [fn : {"disaster"}, declarations : DeclarationLists]
  \cup [fn : {"energy"}, demands : DemandLists,
        costs : {CoolingWarmingCosts("TX", "County 1", b) : b \in BurdenValues}]
  \cup [fn : {"migration"}, netMigration : NetMigrationValues,
        totalPopulation : PopulationValues]
  \cup [fn : {"tier"}, score : ScoreValues]
  \cup [fn : {"seasonal"}, date : ForecastDates]
  \cup [fn : {"forecast"}, date : SliderDates,
        county : {ForecastCounty(b, c) : b \in ForecastBases, c \in DisasterCounts}]
  \cup { [fn |-> "combine", scores |-> q[1],
          raised |-> [q[1] EXCEPT ![q[2]] = q[3]]] : q \in Raises }
  \cup { [fn |-> "diversity",
          declarations |-> DeclarationList(n, a, db, ds, "TX", "County 1"),
          diversified |-> DeclarationList(n, b, db, ds, "TX", "County 1")] :
           <<n, a, b, db, ds>> \in
             { q \in (1..MaxDecl) \X TypeSteps \X TypeSteps
                      \X (1..Len(DateStrings)) \X (0..1) :
                 DistinctTypes(DeclarationList(q[1], q[3], 1, 0, "TX", "County 1")) >
                 DistinctTypes(DeclarationList(q[1], q[2], 1, 0, "TX", "County 1")) } }
  \cup [fn : {"color"}, score : ScoreValues, layerId : LabelledLayers]

NoFetch ==
  [stormEvents |-> <<>>, disasters |-> <<>>, migrationData |-> <<>>,
   energyDemand |-> <<>>, coolingWarmingCosts |-> <<>>]

\* no county file and no FEMA declarations, no map view mounted
NoRealData == [counties |-> <<>>, declarations |-> <<>>]

NoView == [mounted |-> FALSE]

NoUi == [mounted |-> FALSE]

NoCache == [loaded |-> FALSE]

NoSlider == [mounted |-> FALSE]

(***************************************************************************)
(* Scorer calls: each call applies one function of the source to the       *)
(* arguments args, at the current clock value, and keeps the value the     *)
(* previous call on the same arguments returned.                           *)
(***************************************************************************)
Init ==
  /\ now = 0
  /\ args \in ArgSet
  /\ ret = <<>>
  /\ prevRet = <<>>
  /\ fetched = NoFetch
  /\ metrics = <<>>
  /\ realData = NoRealData
  /\ view = NoView
  /\ ui = NoUi
  /\ cache = NoCache
  /\ slider = NoSlider

\* ret holds the value of the latest call and the clock value it ran at
Return(v) ==
  /\ ret' = <<[value |-> v, at |-> now]>>
  /\ prevRet' = ret
  /\ UNCHANGED <<now, args, fetched, metrics, realData, view, ui, cache, slider>>

CallDisasterRiskScore ==
  /\ args.fn = "disaster"
  /\ Return(calculateDisasterRiskScore(args.declarations, now))

CallEnergyStressScore ==
  /\ args.fn = "energy"
  /\ Return(calculateEnergyStressScore(args.demands, args.costs))

CallMigrationStressScore ==
  /\ args.fn = "migration"
  /\ Return(calculateMigrationStressScore(R(args.netMigration),
                                          R(args.totalPopulation)))

CallStressLevel ==
  /\ args.fn = "tier"
  /\ Return([metrics |-> MetricsStressLevel(args.score),
             realData |-> RealDataStressLevel(args.score),
             forecast |-> getForecastLevel(args.score)])

CallSeasonalAdjustment ==
  /\ args.fn = "seasonal"
  /\ Return(getSeasonalAdjustment(args.date))

CallForecastScore ==
  /\ args.fn = "forecast"
  /\ Return(getForecastScore(args.county, args.date))

\* the wall clock read by new Date() advances
Tick ==
  /\ now < MaxTicks
  /\ now' = now + 1
  /\ UNCHANGED <<args, ret, prevRet, fetched, metrics, realData, view, ui, cache, slider>>

(***************************************************************************)
(* emergencyMetricsAggregator.ts: fetchEmergencyMetrics.  fetched holds    *)
(* the arrays the five fetchers resolve to; a county key `${state}-${name}` *)
(* is the pair <<state, name>> (no modelled name contains a dash, so the   *)
(* split gives the pair back); a FIPS string is <<state, digits>>.         *)
(***************************************************************************)
RECURSIVE Digits(_)
Digits(k) == IF k < 10 THEN <<k>> ELSE Append(Digits(k \div 10), k % 10)

\* String(k).padStart(3, '0')
RECURSIVE PadStart3(_)
PadStart3(ds) == IF Len(ds) >= 3 THEN ds ELSE PadStart3(<<0>> \o ds)

\* `${state}${Math.floor(Math.random() * 200) + 1}`
MockFips(state, k) == <<state, Digits(k)>>

MigrationFips(state, k) == <<state, PadStart3(Digits(k))>>

DisasterKey(declaration) ==
  <<declaration.state,
    IF declaration.county = "" THEN "Statewide" ELSE declaration.county>>

AddUnique(keys, k) ==
  IF \E i \in 1..Len(keys) : keys[i] = k THEN keys ELSE Append(keys, k)

RECURSIVE KeysOf(_, _, _)
KeysOf(keys, items, i) ==
  IF i > Len(items) THEN keys
  ELSE KeysOf(AddUnique(keys, items[i]), items, i + 1)

\* the Set of county keys, in insertion order: storms, disasters, costs
CountyKeys(f) ==
  LET storms == KeysOf(<<>>, [i \in 1..Len(f.stormEvents) |->
                                <<f.stormEvents[i].state, f.stormEvents[i].county>>], 1)
      dis == KeysOf(storms, [i \in 1..Len(f.disasters) |->
                               DisasterKey(f.disasters[i])], 1)
  IN KeysOf(dis, [i \in 1..Len(f.coolingWarmingCosts) |->
                    <<f.coolingWarmingCosts[i].state, f.coolingWarmingCosts[i].county>>], 1)

\* aggregateDisastersByCounty(disasters).get(countyKey).recent
DisastersOfCounty(disasters, countyKey) ==
  LET InCounty(d) == DisasterKey(d) = countyKey
  IN SelectSeq(disasters, InCounty)

OverallStressScoreMigrationSubtracted(disaster, energy, migration) ==
  Sub(Add(Mul(disaster, Rat(2, 5)), Mul(energy, Rat(2, 5))),
      Mul(migration, Rat(1, 5)))

OverallStressScoreRealDataWeights(disaster, energy, migration) ==
  Add(Mul(disaster, Rat(3, 5)), Mul(energy, Rat(2, 5)))

\* disasterStressScore * 0.4 + energyStressScore * 0.4 + migrationStressScore * 0.2
OverallStressScore(disaster, energy, migration) ==
  Add(Add(Mul(disaster, Rat(2, 5)), Mul(energy, Rat(2, 5))),
      Mul(migration, Rat(1, 5)))

\* the record pushed for one county, from its data d and its scores
MetricsRecord(countyKey, countyFips, d, scores, overallStressScore) ==
  [geoid |-> countyFips, name |-> countyKey[2], state |-> countyKey[1],
   county |-> countyKey[2],
   stormEventsCount |-> Len(d.storms),
   disasterDeclarationsCount |-> Len(d.disastersData),
   totalEnergyBurden |->
     IF Len(d.costData) > 0 THEN d.costData[1].totalEnergyBurden ELSE R(0),
   energyDemandPeak |-> calculatePeakDemand(d.demandData).peak,
   energyDemandAverage |-> calculatePeakDemand(d.demandData).average,
   outMigration |-> d.migration.outMigration,
   inMigration |-> d.migration.inMigration,
   netMigration |-> d.migration.netMigration,
   migrationStressScore |-> scores.migrationStressScore,
   disasterStressScore |-> scores.disasterStressScore,
   energyStressScore |-> scores.energyStressScore,
   overallStressScore |-> overallStressScore,
   isTopStressed |-> Ge(overallStressScore, R(70)),
   stressLevel |-> MetricsStressLevel(overallStressScore)]

\* the stress scores of one county
CountyScores(d, populationEstimate, nowTime) ==
  [disasterStressScore |->
     IF Len(d.disastersData) > 0
     THEN calculateDisasterRiskScore(d.disastersData, nowTime) ELSE R(0),
   migrationStressScore |->
     calculateMigrationStressScore(R(d.migration.netMigration),
                                   R(populationEstimate)),
   energyStressScore |->
     IF Len(d.costData) > 0 /\ Len(d.demandData) > 0
     THEN calculateEnergyStressScore(d.demandData, d.costData[1]) ELSE R(0)]

\* the data of one county
CountyData(f, countyKey, countyFips) ==
  LET InState(x) == x.state = countyKey[1]
      InStormCounty(e) == <<e.state, e.county>> = countyKey
      IsCounty(c) == c.state = countyKey[1] /\ c.county = countyKey[2]
  IN [storms |-> SelectSeq(f.stormEvents, InStormCounty),
      disastersData |-> DisastersOfCounty(f.disasters, countyKey),
      costData |-> SelectSeq(f.coolingWarmingCosts, IsCounty),
      demandData |-> SelectSeq(f.energyDemand, InState),
      migration |-> calculateNetMigration(countyFips, f.migrationData)]

\* the body of counties.forEach; fipsNumber and populationEstimate are the
\* two values drawn with Math.random()
CountyMetrics(f, countyKey, fipsNumber, populationEstimate, nowTime) ==
  LET countyFips == MockFips(countyKey[1], fipsNumber)
      d == CountyData(f, countyKey, countyFips)
      scores == CountyScores(d, populationEstimate, nowTime)
  IN MetricsRecord(countyKey, countyFips, d, scores,
                   OverallStressScore(scores.disasterStressScore,
                                      scores.energyStressScore,
                                      scores.migrationStressScore))

\* metrics.sort((a, b) => b.overallStressScore - a.overallStressScore):
\* a stable sort, highest score first
RECURSIVE InsertByScore(_, _)
InsertByScore(sorted, m) ==
  IF sorted = <<>> THEN <<m>>
  ELSE IF Gt(m.overallStressScore, sorted[1].overallStressScore)
       THEN <<m>> \o sorted
       ELSE <<sorted[1]>> \o InsertByScore(Tail(sorted), m)

\* the records left in the order they were pushed
PushOrder(ms, i) == SubSeq(ms, 1, i)

RECURSIVE SortByScore(_, _)
SortByScore(ms, i) ==
  IF i = 0 THEN <<>> ELSE InsertByScore(SortByScore(ms, i - 1), ms[i])

MockFipsNumbers == {5, 150}

MockPopulations == {50000, 100000}

\* the arrays the mock fetchers produce, cut down to a few records: dates
\* that parse (one year old or in the future for TX, five years old for FL,
\* whose declarations have no county), a burden within the generated 0.9
\* to 8 percent, positive demand for one state, populations from 50000 up
DisasterArrays ==
  { DeclarationList(n1, 1, db, 0, "TX", "County 1")
      \o DeclarationList(n2, 1, 4, 0, "FL", "") :
      n1 \in {0, 2, MaxDecl}, db \in {5, 7}, n2 \in {0, 2, MaxDecl} }

CostArrays ==
  {<<>>} \cup {<<CoolingWarmingCosts("TX", "County 1", b)>> :
                 b \in {Rat(9, 10), R(8)}}

DemandArrays ==
  { [i \in 1..2 |-> EnergyDemand("TX", 5000)],
    [i \in 1..5 |-> EnergyDemand("TX", IF i = 5 THEN 12000 ELSE 5000)],
    <<EnergyDemand("FL", 6000), EnergyDemand("FL", 9000)>> }

MigrationFlow(origin, destination, returns) ==
  [originCounty |-> origin, destinationCounty |-> destination,
   numberOfReturns |-> returns]

MigrationArrays ==
  { <<>>,
    <<MigrationFlow(MigrationFips("TX", 150), MigrationFips("FL", 5), 5000)>>,
    <<MigrationFlow(MigrationFips("TX", 150), MigrationFips("FL", 150), 2500),
      MigrationFlow(MigrationFips("FL", 5), MigrationFips("TX", 150), 10)>> }

StormArrays == {<<>>, <<[state |-> "TX", county |-> "County 1"]>>}

\* arrays in which both counties have declarations, a burden record and
\* demand samples, the FL county first, and flows that leave both counties
BothCountiesArrays ==
  [stormEvents : {<<>>},
   disasters : { DeclarationList(MaxDecl, 1, db, 0, "FL", "County 2")
                   \o DeclarationList(MaxDecl, 1, db, 0, "TX", "County 1") :
                   db \in {5, 7} },
   migrationData :
     { <<>>,
       <<MigrationFlow(MigrationFips("TX", 150), MigrationFips("FL", 5), 5000),
         MigrationFlow(MigrationFips("FL", 150), MigrationFips("TX", 5), 5000)>> },
   energyDemand : { <<EnergyDemand("FL", 6000), EnergyDemand("FL", 9000),
                      EnergyDemand("TX", 5000), EnergyDemand("TX", 12000)>> },
   coolingWarmingCosts : { <<CoolingWarmingCosts("FL", "County 2", R(8)),
                             CoolingWarmingCosts("TX", "County 1", R(8))>> }]

FetchedSet ==
  [stormEvents : StormArrays, disasters : DisasterArrays,
   migrationData : MigrationArrays, energyDemand : DemandArrays,
   coolingWarmingCosts : CostArrays]
    \cup BothCountiesArrays

InitMetrics ==
  /\ now = 0
  /\ args = [fn |-> "metrics"]
  /\ ret = <<>>
  /\ prevRet = <<>>
  /\ fetched \in FetchedSet
  /\ metrics = <<>>
  /\ realData = NoRealData
  /\ view = NoView
  /\ ui = NoUi
  /\ cache = NoCache
  /\ slider = NoSlider

\* one call of fetchEmergencyMetrics; the function keeps nothing between
\* calls, so a behaviour holds one call, at any clock value
fetchEmergencyMetrics ==
  /\ args.fn = "metrics"
  /\ ret = <<>>
  /\ LET counties == CountyKeys(fetched)
     IN \E rnd \in [1..Len(counties) -> MockFipsNumbers \X MockPopulations] :
          LET pushed == [i \in 1..Len(counties) |->
                           CountyMetrics(fetched, counties[i], rnd[i][1],
                                         rnd[i][2], now)]
          IN /\ metrics' = SortByScore(pushed, Len(pushed))
             /\ ret' = <<[value |-> Len(counties), at |-> now]>>
  /\ UNCHANGED <<now, args, prevRet, fetched, realData, view, ui, cache, slider>>

\* metrics.filter(m => m.isTopStressed).slice(0, limit), limit >= 0
getTopStressedAreas(ms, limit) ==
  LET IsTop(m) == m.isTopStressed
      stressed == SelectSeq(ms, IsTop)
  IN SubSeq(stressed, 1, IF limit < Len(stressed) THEN limit ELSE Len(stressed))

MaxLimit == 2

\* getTopStressedAreas applied to the array fetchEmergencyMetrics returned
CallGetTopStressedAreas ==
  /\ args.fn = "metrics"
  /\ ret # <<>>
  /\ \E limit \in 0..MaxLimit :
       ret' = <<[value |-> getTopStressedAreas(metrics, limit),
                 limit |-> limit]>>
  /\ UNCHANGED <<now, args, prevRet, fetched, metrics, realData, view, ui, cache, slider>>

NextMetrics ==
  \/ fetchEmergencyMetrics
  \/ CallGetTopStressedAreas
  \/ Tick

SpecMetrics == InitMetrics /\ [][NextMetrics]_vars

(***************************************************************************)
(* realFemaData.ts and realDataAggregator.ts: the real-data path.  A FIPS  *)
(* code is the sequence of its digits, so that the key                     *)
(* `${fipsStateCode}${fipsCountyCode}` is a concatenation.  realData holds *)
(* what the county file and the FEMA API serve, and the fiscal years whose *)
(* request failed in the latest load; a fiscal year is counted from the    *)
(* first year that fetchRecentDisasters asks for.                          *)
(***************************************************************************)
FemaDeclaration(stateCode, countyCode, type, date, fy) ==
  [fipsStateCode |-> stateCode, fipsCountyCode |-> countyCode,
   incidentType |-> type, declarationDate |-> date, fyDeclared |-> fy]

\* for (let year = startYear; year <= currentYear; year++), years = 5
FetchYears == 0..5

\* fetchFEMADisasters({ year }): the declarations of the year, or [] when
\* the request fails
fetchFEMADisasters(upstream, year, failed) ==
  LET OfYear(d) == d.fyDeclared = year
  IN IF failed THEN <<>> ELSE SelectSeq(upstream, OfYear)

RECURSIVE fetchRecentDisasters(_, _, _)
fetchRecentDisasters(upstream, year, failedYears) ==
  IF year \notin FetchYears THEN <<>>
  ELSE fetchFEMADisasters(upstream, year, year \in failedYears)
       \o fetchRecentDisasters(upstream, year + 1, failedYears)

FipsKey(disaster) == disaster.fipsStateCode \o disaster.fipsCountyCode

\* the Map from `${fipsStateCode}${fipsCountyCode}` to the declarations
groupDisastersByCounty(disasters) ==
  [key \in {FipsKey(disasters[i]) : i \in 1..Len(disasters)} |->
     LET HasKey(d) == FipsKey(d) = key
     IN SelectSeq(disasters, HasKey)]

\* countyDisasters.reduce((latest, current) => ...), as an array of 0 or 1
RECURSIVE MostRecentDisaster(_, _)
MostRecentDisaster(countyDisasters, i) ==
  IF i = 0 THEN <<>>
  ELSE IF i = 1 THEN <<countyDisasters[1]>>
  ELSE LET latest == MostRecentDisaster(countyDisasters, i - 1)[1]
           current == countyDisasters[i]
       IN IF Gt(DateGetTime(current.declarationDate),
                DateGetTime(latest.declarationDate))
          THEN <<current>> ELSE <<latest>>

RealDataDisasterScoreUncapped(disasterCount, typeCount) ==
  R(disasterCount * 5 + typeCount * 10)

\* Math.min(disasterCount * 5 + disasterTypes.size * 10, 100)
RealDataDisasterScore(disasterCount, typeCount) ==
  MathMin(R(disasterCount * 5 + typeCount * 10), R(100))

\* Math.min(avgIntensity * 100 + percentile * 0.5, 100)
RealDataEnergyScore(properties) ==
  MathMin(Add(Mul(properties.avgIntensity, R(100)),
              Mul(properties.percentile, Rat(1, 2))), R(100))

RealDataOverallScoreMetricsWeights(disaster, energy) ==
  Add(Mul(disaster, Rat(2, 5)), Mul(energy, Rat(2, 5)))

\* disasterStressScore * 0.6 + energyStressScore * 0.4
RealDataOverallScore(disaster, energy) ==
  Add(Mul(disaster, Rat(3, 5)), Mul(energy, Rat(2, 5)))

\* the emergencyMetrics of an enriched county: the tier and the returned record
EnrichedMetrics(countyDisasters, disasterStressScore, energyStressScore, overallStressScore) ==
  [disasterCount |-> Len(countyDisasters),
   disasterTypes |-> {countyDisasters[i].incidentType : i \in 1..Len(countyDisasters)},
   mostRecentDisaster |-> MostRecentDisaster(countyDisasters, Len(countyDisasters)),
   disasterStressScore |-> disasterStressScore,
   energyStressScore |-> energyStressScore,
   overallStressScore |-> overallStressScore,
   stressLevel |-> RealDataStressLevel(overallStressScore)]

\* the body of counties.features.map
EnrichCounty(county, disastersByCounty) ==
  LET countyFips == county.properties.fips
      countyDisasters == IF countyFips \in DOMAIN disastersByCounty
                         THEN disastersByCounty[countyFips] ELSE <<>>
      disasterCount == Len(countyDisasters)
      disasterTypes == {countyDisasters[i].incidentType : i \in 1..disasterCount}
      disasterStressScore ==
        RealDataDisasterScore(disasterCount, Cardinality(disasterTypes))
      energyStressScore == RealDataEnergyScore(county.properties)
      overallStressScore == RealDataOverallScore(disasterStressScore, energyStressScore)
  IN [properties |-> county.properties,
      emergencyMetrics |-> EnrichedMetrics(countyDisasters, disasterStressScore,
                                           energyStressScore, overallStressScore)]

enrichCountiesWithDisasters(counties, disasters) ==
  LET disastersByCounty == groupDisastersByCounty(disasters)
  IN [i \in 1..Len(counties) |-> EnrichCounty(counties[i], disastersByCounty)]

IsTopStressedAtSeventy(emergencyMetrics) ==
  Ge(emergencyMetrics.overallStressScore, R(70))

\* metrics.stressLevel === 'Critical'
IsTopStressedRealData(emergencyMetrics) == emergencyMetrics.stressLevel = "Critical"

\* the body of enrichedCounties.map; the centre of the polygon is left out
ConvertCounty(county) ==
  LET props == county.properties
      m == county.emergencyMetrics
  IN [geoid |-> props.fips, name |-> props.name, state |-> props.state,
      county |-> props.name,
      stormEventsCount |-> m.disasterCount,
      totalStormDamage |-> R(0),
      disasterDeclarationsCount |-> m.disasterCount,
      coolingCosts |-> Mul(props.totalEnergyMW, R(50)),
      heatingCosts |-> Mul(props.totalEnergyMW, R(40)),
      totalEnergyBurden |-> Mul(props.avgIntensity, R(15)),
      energyDemandPeak |-> Mul(props.totalEnergyMW, Rat(3, 2)),
      energyDemandAverage |-> props.totalEnergyMW,
      outMigration |-> 0, inMigration |-> 0, netMigration |-> 0,
      migrationStressScore |-> R(0),
      disasterStressScore |-> m.disasterStressScore,
      energyStressScore |-> m.energyStressScore,
      overallStressScore |-> m.overallStressScore,
      isTopStressed |-> IsTopStressedRealData(m),
      stressLevel |-> m.stressLevel]

convertToEmergencyMetrics(enrichedCounties) ==
  [i \in 1..Len(enrichedCounties) |-> ConvertCounty(enrichedCounties[i])]

\* counties.filter(c => c.properties.state === state)
filterCountiesByState(counties, state) ==
  LET InState(c) == c.properties.state = state
  IN SelectSeq(counties, InState)

\* a feature of us-counties-energy.json, without its polygon
CountyFeature(name, state, fips, avgIntensity, percentile, totalEnergyMW) ==
  [properties |-> [name |-> name, state |-> state, fips |-> fips,
                   avgIntensity |-> avgIntensity, percentile |-> percentile,
                   totalEnergyMW |-> totalEnergyMW]]

\* a feature of us-nightlight-data.json
NightlightFeature(name, state) == [properties |-> [name |-> name, state |-> state]]

TexasFips == <<4, 8>>

FloridaFips == <<1, 2>>

\* avgIntensity is on a 0-1 scale; -1/2 is a corrupt value
IntensityValues == {Rat(-1, 2), R(0), Rat(1, 4), R(1)}

PercentileValues == {R(0), R(50), R(100)}

CountyCollections ==
  { << CountyFeature("Anderson", "TX", TexasFips \o <<0, 0, 1>>, a, p, R(120)),
       CountyFeature("Alachua", "FL", FloridaFips \o <<0, 0, 1>>, Rat(3, 5), R(90), R(300)) >> :
      a \in IntensityValues, p \in PercentileValues }

\* n declarations of one county, declared in the last two fiscal years asked for
FemaList(n, typeStep, stateCode, countyCode) ==
  [i \in 1..n |->
     FemaDeclaration(stateCode, countyCode,
                     IncidentTypes[(((i - 1) * typeStep) % Len(IncidentTypes)) + 1],
                     DateStrings[((i - 1) % Len(DateStrings)) + 1],
                     4 + (i % 2))]

\* what the FEMA API holds: declarations of the Texas county, a statewide
\* Texas declaration (county code 000) and declarations of the Florida county
FemaUpstreams ==
  { FemaList(n1, ts, TexasFips, <<0, 0, 1>>)
      \o FemaList(1, 1, TexasFips, <<0, 0, 0>>)
      \o FemaList(n2, 1, FloridaFips, <<0, 0, 1>>) :
      n1 \in {0, 1, 3, MaxDecl}, ts \in 0..1, n2 \in {0, 2} }

\* the fiscal years whose request fails in one load
FailureSets == {{}, {4}, {5}, FetchYears}

RealDataSet ==
  [counties : CountyCollections,
   nightlight : {<<NightlightFeature("Palestine", "TX"), NightlightFeature("Gainesville", "FL")>>},
   declarations : FemaUpstreams,
   failedYears : {{}}]

\* RealMapView after its first render: the useState initial values (null is
\* the empty array), the selectedState prop as an array of 0 or 1 state, and
\* the loads in flight
ViewSet ==
  [mounted : {TRUE}, selectedState : {<<>>, <<"TX">>}, loading : {TRUE},
   error : {<<>>}, counties : {<<>>}, nightlightData : {<<>>},
   selectedCounty : {<<>>}, inFlight : {<<>>}, loadsStarted : {0},
   settled : {<<>>}]

\* the values the parent gives the selectedState prop: undefined or a state
SelectedStates == {<<>>, <<"TX">>}

MaxLoads == 2

InitReal ==
  /\ now = 0
  /\ args = [fn |-> "realData"]
  /\ ret = <<>>
  /\ prevRet = <<>>
  /\ fetched = NoFetch
  /\ metrics = <<>>
  /\ realData \in RealDataSet
  /\ view \in ViewSet
  /\ ui = NoUi
  /\ cache = NoCache
  /\ slider = NoSlider

\* the effect of RealMapView runs after the first render: loadData() up to
\* its await
loadDataStart ==
  /\ view.mounted
  /\ view.loadsStarted = 0
  /\ view' = [view EXCEPT !.loading = TRUE, !.error = <<>>,
                          !.inFlight = Append(@, [selectedState |-> view.selectedState]),
                          !.loadsStarted = @ + 1]
  /\ UNCHANGED <<now, args, ret, prevRet, fetched, metrics, realData, ui, cache, slider>>

\* the parent changes the selectedState prop, and the effect, which has
\* selectedState as its dependency, runs loadData() again up to its await;
\* nothing cancels the loads already in flight
selectedStateChange ==
  /\ view.mounted
  /\ view.loadsStarted > 0
  /\ view.loadsStarted < MaxLoads
  /\ \E selectedState \in SelectedStates \ {view.selectedState} :
       view' = [view EXCEPT !.selectedState = selectedState,
                            !.loading = TRUE, !.error = <<>>,
                            !.inFlight = Append(@, [selectedState |-> selectedState]),
                            !.loadsStarted = @ + 1, !.settled = <<>>]
  /\ UNCHANGED <<now, args, ret, prevRet, fetched, metrics, realData, ui, cache, slider>>

\* slice(0, 500)
NightlightLimit == 500

\* the sequence s without its i-th element
RemoveAt(s, i) == SubSeq(s, 1, i - 1) \o SubSeq(s, i + 1, Len(s))

\* the nightlight points loadData keeps for the selectedState of its closure
FilteredNightlight(features, selectedState) ==
  LET InSelectedState(f) == f.properties.state = selectedState[1]
  IN IF selectedState # <<>>
     THEN SelectSeq(features, InSelectedState)
     ELSE SubSeq(features, 1,
                 IF Len(features) < NightlightLimit
                 THEN Len(features) ELSE NightlightLimit)

\* loadAllRealData resolves or rejects for one of the loads in flight, in
\* any order, and that loadData runs to its end with the selectedState of
\* its closure; view.settled keeps, until the next load starts, the outcome
\* of the load that completed and the counties shown before it
loadDataResolve ==
  /\ view.mounted
  /\ \E k \in 1..Len(view.inFlight), filesOk \in BOOLEAN, failedYears \in FailureSets :
       LET selectedState == view.inFlight[k].selectedState
           disasters == fetchRecentDisasters(realData.declarations, 0, failedYears)
           enrichedCounties == enrichCountiesWithDisasters(realData.counties, disasters)
       IN /\ realData' = [realData EXCEPT !.failedYears = failedYears]
          /\ view' =
               IF filesOk
               THEN [view EXCEPT
                       !.counties = IF selectedState # <<>>
                                    THEN filterCountiesByState(enrichedCounties, selectedState[1])
                                    ELSE enrichedCounties,
                       !.nightlightData =
                          FilteredNightlight(realData.nightlight, selectedState),
                       !.loading = FALSE, !.inFlight = RemoveAt(@, k),
                       !.settled = <<[ok |-> TRUE, counties |-> view.counties]>>]
               ELSE [view EXCEPT !.error = <<"Failed to load county data">>,
                                 !.loading = FALSE, !.inFlight = RemoveAt(@, k),
                                 !.settled = <<[ok |-> FALSE, counties |-> view.counties]>>]
  /\ UNCHANGED <<now, args, ret, prevRet, fetched, metrics, ui, cache, slider>>

\* convertToEmergencyMetrics applied to the counties the view holds
CallConvertToEmergencyMetrics ==
  /\ view.mounted
  /\ ~view.loading
  /\ view.error = <<>>
  /\ metrics = <<>>
  /\ metrics' = convertToEmergencyMetrics(view.counties)
  /\ UNCHANGED <<now, args, ret, prevRet, fetched, realData, view, ui, cache, slider>>

NextReal ==
  \/ loadDataStart
  \/ selectedStateChange
  \/ loadDataResolve
  \/ CallConvertToEmergencyMetrics

SpecReal == InitReal /\ [][NextReal]_vars

(***************************************************************************)
(* AppEnhanced.tsx and RealMapView.tsx: the map once its data is loaded.   *)
(* ui holds the state of AppEnhanced that the map receives as props: the   *)
(* layers and the date of the time slider, to the month.                   *)
(***************************************************************************)
Layer(id, type, enabled) == [id |-> id, type |-> type, enabled |-> enabled]

\* useState<MapLayerConfig[]>([...])
InitialLayers ==
  << Layer("county-choropleth", "choropleth", TRUE),
     Layer("forecast-pressure", "choropleth", FALSE),
     Layer("disaster-stress", "choropleth", FALSE),
     Layer("energy-reliability", "symbols", FALSE),
     Layer("recovery-needs", "symbols", FALSE),
     Layer("infrastructure-priority", "symbols", FALSE),
     Layer("county-pricing", "symbols", FALSE),
     Layer("manufacturing-hubs", "symbols", FALSE),
     Layer("agriculture-supply", "symbols", FALSE),
     Layer("water-systems", "symbols", FALSE),
     Layer("first-responders", "symbols", FALSE),
     Layer("new-projects", "symbols", FALSE),
     Layer("storage-sites", "symbols", FALSE),
     Layer("nightlight-points", "symbols", FALSE),
     Layer("top-stressed", "symbols", TRUE) >>

\* a toggle that sets the flag of the toggled layer and nothing else
ToggleLayersOnlyTarget(prevLayers, layerId, enabled) ==
  [i \in 1..Len(prevLayers) |->
     IF prevLayers[i].id = layerId
     THEN [prevLayers[i] EXCEPT !.enabled = enabled] ELSE prevLayers[i]]

\* prevLayers.map(layer => ...)
ToggleLayers(prevLayers, layerId, enabled) ==
  [i \in 1..Len(prevLayers) |->
     LET layer == prevLayers[i]
     IN IF layer.id = layerId THEN [layer EXCEPT !.enabled = enabled]
        ELSE IF enabled /\ layer.type = "choropleth" /\ layer.id # layerId
             THEN [layer EXCEPT !.enabled = FALSE]
        ELSE layer]

\* layers.find(l => l.id === id)?.enabled
LayerEnabled(layers, id) ==
  \E i \in 1..Len(layers) : layers[i].id = id /\ layers[i].enabled

IsLeapYear(year) == year % 4 = 0 /\ (year % 100 # 0 \/ year % 400 = 0)

DaysInMonth(year, month) ==
  IF month = 2 THEN (IF IsLeapYear(year) THEN 29 ELSE 28)
  ELSE IF month \in {4, 6, 9, 11} THEN 30 ELSE 31

DaysInYear(year) == IF IsLeapYear(year) THEN 366 ELSE 365

\* the month of the date that lies days days after the first of a month
RECURSIVE DateAfter(_, _, _)
DateAfter(year, month, days) ==
  IF month = 1 /\ days >= DaysInYear(year)
  THEN DateAfter(year + 1, 1, days - DaysInYear(year))
  ELSE IF days < DaysInMonth(year, month) THEN [year |-> year, month |-> month]
  ELSE IF month = 12 THEN DateAfter(year + 1, 1, days - DaysInMonth(year, month))
  ELSE DateAfter(year, month + 1, days - DaysInMonth(year, month))

\* maxDate.getTime() - minDate.getTime(), in days: 2020-01-01 to 2035-12-31
SliderTotalDays == 5843

\* new Date(minDate.getTime() + (totalMs * value) / 100)
SliderDate(value) == DateAfter(2020, 1, (SliderTotalDays * value) \div 100)

\* positions of the slider: 2020-01, 2021-08 and 2035-12
SliderValues == {0, 10, 100}

\* the layers that get toggled
ToggledLayers == {"county-choropleth", "forecast-pressure"}

\* the counties of a completed load: a Texas county with 2 or 3 declarations
\* and a Florida county with the same energy figures and 2 declarations
MapCounties ==
  { enrichCountiesWithDisasters(
      << CountyFeature("Anderson", "TX", TexasFips \o <<0, 0, 1>>, Rat(3, 5), R(90), R(120)),
         CountyFeature("Alachua", "FL", FloridaFips \o <<0, 0, 1>>, Rat(3, 5), R(90), R(300)) >>,
      FemaList(n1, 1, TexasFips, <<0, 0, 1>>) \o FemaList(2, 1, FloridaFips, <<0, 0, 1>>)) :
      n1 \in {2, 3} }

InitMap ==
  /\ now = 0
  /\ args = [fn |-> "map"]
  /\ ret = <<>>
  /\ prevRet = <<>>
  /\ fetched = NoFetch
  /\ metrics = <<>>
  /\ realData = NoRealData
  /\ view \in [mounted : {TRUE}, selectedState : {<<>>}, loading : {FALSE},
                error : {<<>>}, counties : MapCounties, nightlightData : {<<>>},
                selectedCounty : {<<>>}, inFlight : {<<>>}, loadsStarted : {1}]
  /\ ui = [mounted |-> TRUE, currentDate |-> [year |-> 2030, month |-> 1],
           layers |-> InitialLayers]
  /\ cache = NoCache
  /\ slider = NoSlider

handleLayerToggle ==
  /\ ui.mounted
  /\ \E layerId \in ToggledLayers, enabled \in BOOLEAN :
       ui' = [ui EXCEPT !.layers = ToggleLayers(@, layerId, enabled)]
  /\ UNCHANGED <<now, args, ret, prevRet, fetched, metrics, realData, view, cache, slider>>

\* TimeSlider handleSliderChange, then onDateChange = setCurrentDate
handleSliderChange ==
  /\ ui.mounted
  /\ \E value \in SliderValues : ui' = [ui EXCEPT !.currentDate = SliderDate(value)]
  /\ UNCHANGED <<now, args, ret, prevRet, fetched, metrics, realData, view, cache, slider>>

\* click on a county: setSelectedCounty(county)
SelectCounty ==
  /\ ui.mounted
  /\ \E i \in 1..Len(view.counties) :
       view' = [view EXCEPT !.selectedCounty = <<view.counties[i]>>]
  /\ UNCHANGED <<now, args, ret, prevRet, fetched, metrics, realData, ui, cache, slider>>

\* the close button of the county panel: setSelectedCounty(null)
CloseCountyPanel ==
  /\ ui.mounted
  /\ view.selectedCounty # <<>>
  /\ view' = [view EXCEPT !.selectedCounty = <<>>]
  /\ UNCHANGED <<now, args, ret, prevRet, fetched, metrics, realData, ui, cache, slider>>

ForecastOnlyWithForecastLayer(county) ==
  IF LayerEnabled(ui.layers, "forecast-pressure")
  THEN getForecastScore(county, ui.currentDate)
  ELSE clampScore(county.emergencyMetrics.overallStressScore)

\* getForecastScore(county) inside the component: currentDate is the prop
ForecastOfCounty(county) == getForecastScore(county, ui.currentDate)

\* onEachCounty computes the forecast of a county for its tooltip; ret keeps
\* the arguments and the result, with the layer state and the selection
RenderCounty ==
  /\ ui.mounted
  /\ \E i \in 1..Len(view.counties) :
       LET county == view.counties[i]
       IN Return([fips |-> county.properties.fips,
                  baseScore |-> county.emergencyMetrics.overallStressScore,
                  date |-> ui.currentDate,
                  disasterCount |-> county.emergencyMetrics.disasterCount,
                  forecastScore |-> ForecastOfCounty(county),
                  forecastLayer |-> LayerEnabled(ui.layers, "forecast-pressure"),
                  selectedCounty |->
                    IF view.selectedCounty = <<>> THEN <<>>
                    ELSE view.selectedCounty[1].properties.fips])

NextMap ==
  \/ handleLayerToggle
  \/ handleSliderChange
  \/ SelectCounty
  \/ CloseCountyPanel
  \/ RenderCounty

SpecMap == InitMap /\ [][NextMap]_vars

(***************************************************************************)
(* The layer panel on its own: LayerControls calls onLayerToggle, which    *)
(* AppEnhanced binds to handleLayerToggle, for a checkbox of any of the    *)
(* three choropleth layers or of two symbol layers.  ui.toggled keeps the  *)
(* arguments of the latest call and the layers it was applied to.          *)
(***************************************************************************)
ControlledLayers ==
  {"county-choropleth", "forecast-pressure", "disaster-stress",
   "nightlight-points", "top-stressed"}

InitLayers ==
  /\ now = 0
  /\ args = [fn |-> "layers"]
  /\ ret = <<>>
  /\ prevRet = <<>>
  /\ fetched = NoFetch
  /\ metrics = <<>>
  /\ realData = NoRealData
  /\ view = NoView
  /\ ui = [mounted |-> TRUE, layers |-> InitialLayers, toggled |-> <<>>]
  /\ cache = NoCache
  /\ slider = NoSlider

\* onChange={(e) => onLayerToggle(layer.id, e.target.checked)}
onLayerToggle ==
  /\ args.fn = "layers"
  /\ \E layerId \in ControlledLayers, enabled \in BOOLEAN :
       ui' = [ui EXCEPT
                !.layers = ToggleLayers(@, layerId, enabled),
                !.toggled = <<[layerId |-> layerId, enabled |-> enabled,
                               prevLayers |-> ui.layers]>>]
  /\ UNCHANGED <<now, args, ret, prevRet, fetched, metrics, realData, view, cache, slider>>

NextLayers == onLayerToggle

SpecLayers == InitLayers /\ [][NextLayers]_vars

(***************************************************************************)
(* TimeSlider on its own.  A date is the number of whole hours since the   *)
(* local midnight of 1 January of SliderEpochYear, which is minDate; the   *)
(* parent keeps currentDate and passes onDateChange = setCurrentDate and   *)
(* onPlayToggle = setIsPlaying, as AppEnhanced does.  slider.last keeps    *)
(* the latest event: the tick with the date it started from and the date   *)
(* the step computed, or the user's input.                                 *)
(***************************************************************************)
SliderEpochYear == 2020

\* maxDate - minDate, in days
MaxSpanDays == 75

\* [year, month, day] of the date that lies days days after the first of a month
RECURSIVE CivilAfter(_, _, _)
CivilAfter(year, month, days) ==
  IF days < DaysInMonth(year, month)
  THEN [year |-> year, month |-> month, day |-> days + 1]
  ELSE IF month = 12 THEN CivilAfter(year + 1, 1, days - DaysInMonth(year, month))
  ELSE CivilAfter(year, month + 1, days - DaysInMonth(year, month))

\* getFullYear(), getMonth() + 1, getDate() and getHours() of a date
CivilOf(date) ==
  LET c == CivilAfter(SliderEpochYear, 1, date \div 24)
  IN [year |-> c.year, month |-> c.month, day |-> c.day, hour |-> date % 24]

\* the days from the epoch to the first of a month
RECURSIVE DaysBeforeMonth(_, _)
DaysBeforeMonth(year, month) ==
  IF year = SliderEpochYear /\ month = 1 THEN 0
  ELSE IF month = 1 THEN DaysBeforeMonth(year - 1, 12) + DaysInMonth(year - 1, 12)
  ELSE DaysBeforeMonth(year, month - 1) + DaysInMonth(year, month - 1)

\* the date with the given fields; a day past the end of the month runs
\* over into the following month, as in Date
DateOfCivil(year, month, day, hour) ==
  (DaysBeforeMonth(year, month) + day - 1) * 24 + hour

\* setMonth(getMonth() + 1)
SetNextMonth(date) ==
  LET c == CivilOf(date)
  IN IF c.month = 12 THEN DateOfCivil(c.year + 1, 1, c.day, c.hour)
     ELSE DateOfCivil(c.year, c.month + 1, c.day, c.hour)

\* the switch on stepSize in the interval callback
StepDate(date, stepSize) ==
  CASE stepSize = "hour" -> date + 1
    [] stepSize = "day" -> date + 24
    [] stepSize = "week" -> date + 7 * 24
    [] stepSize = "month" -> SetNextMonth(date)

\* an interval callback that never wraps around
TickDateNeverWraps(date, stepSize, minDate, maxDate) == StepDate(date, stepSize)

\* the date the interval callback passes to onDateChange
TickDate(date, stepSize, minDate, maxDate) ==
  IF StepDate(date, stepSize) > maxDate THEN minDate ELSE StepDate(date, stepSize)

\* new Date(minDate.getTime() + (totalMs * value) / 100), to the hour
SliderChangeDate(minDate, maxDate, value) ==
  minDate + ((maxDate - minDate) * value) \div 100

\* positions of the range input
SliderPositions == {0, 10, 39, 50, 100}

StepSizes == {"hour", "day", "week", "month"}

\* the component mounted with currentDate within [minDate, maxDate]
SliderSet ==
  [mounted : {TRUE}, minDate : {0}, maxDate : {MaxSpanDays * 24},
   stepSize : StepSizes,
   currentDate : {SliderChangeDate(0, MaxSpanDays * 24, v) : v \in SliderPositions},
   isPlaying : BOOLEAN, playing : BOOLEAN, emitted : {<<>>}, last : {<<>>}]

InitSlider ==
  /\ now = 0
  /\ args = [fn |-> "slider"]
  /\ ret = <<>>
  /\ prevRet = <<>>
  /\ fetched = NoFetch
  /\ metrics = <<>>
  /\ realData = NoRealData
  /\ view = NoView
  /\ ui = NoUi
  /\ cache = NoCache
  /\ slider \in {s \in SliderSet : s.playing = s.isPlaying}

\* the interval callback of the auto-advance effect, which runs only while
\* playing
AutoAdvance ==
  /\ slider.mounted
  /\ slider.playing
  /\ LET nextDate == StepDate(slider.currentDate, slider.stepSize)
         stops == nextDate > slider.maxDate
         passed == TickDate(slider.currentDate, slider.stepSize,
                            slider.minDate, slider.maxDate)
     IN slider' = [slider EXCEPT
                     !.playing = IF stops THEN FALSE ELSE @,
                     !.isPlaying = IF stops THEN FALSE ELSE @,
                     !.currentDate = passed,
                     !.emitted = <<passed>>,
                     !.last = <<[event |-> "tick", from |-> slider.currentDate,
                                 nextDate |-> nextDate, stops |-> stops]>>]
  /\ UNCHANGED <<now, args, ret, prevRet, fetched, metrics, realData, view, ui, cache>>

handlePlayToggle ==
  /\ slider.mounted
  /\ slider' = [slider EXCEPT
                  !.playing = ~slider.playing,
                  !.isPlaying = ~slider.playing,
                  !.last = <<[event |-> "toggle"]>>]
  /\ UNCHANGED <<now, args, ret, prevRet, fetched, metrics, realData, view, ui, cache>>

\* handleSliderChange of TimeSlider with onDateChange = setCurrentDate
TimeSliderChange ==
  /\ slider.mounted
  /\ \E value \in SliderPositions :
       LET newDate == SliderChangeDate(slider.minDate, slider.maxDate, value)
       IN slider' = [slider EXCEPT
                       !.currentDate = newDate,
                       !.emitted = <<newDate>>,
                       !.last = <<[event |-> "slider", value |-> value]>>]
  /\ UNCHANGED <<now, args, ret, prevRet, fetched, metrics, realData, view, ui, cache>>

NextSlider ==
  \/ AutoAdvance
  \/ handlePlayToggle
  \/ TimeSliderChange

SpecSlider == InitSlider /\ [][NextSlider]_vars

\* playback with no user input: the timer keeps firing while playing
NextPlayback == AutoAdvance

SpecPlayback == InitSlider /\ [][NextPlayback]_vars /\ WF_vars(AutoAdvance)

(***************************************************************************)
(* dataAggregator.ts: aggregateMigrationByState.  The Map it returns is a  *)
(* sequence of entries in insertion order, each with its key.              *)
(***************************************************************************)
MaxFlows == 3

MigrationStates == {"TX", "FL"}

\* one flow between the counties numbered 150 of two states, with a count
\* of returns as the mock generator draws it and the lowest income per return
StateFlow(originState, destinationState, numberOfReturns) ==
  [originCounty |-> MigrationFips(originState, 150),
   destinationCounty |-> MigrationFips(destinationState, 150),
   originState |-> originState, destinationState |-> destinationState,
   numberOfReturns |-> numberOfReturns,
   aggregatedIncome |-> numberOfReturns * 30000]

FlowLists ==
  SeqsUpTo({StateFlow(o, d, n) : o \in MigrationStates, d \in MigrationStates,
                                 n \in {10, 2500}}, MaxFlows)

\* the keys of stateMap in insertion order: for each flow its origin
\* state, then its destination state
RECURSIVE StateKeys(_, _)
StateKeys(migrationData, i) ==
  IF i = 0 THEN <<>>
  ELSE AddUnique(AddUnique(StateKeys(migrationData, i - 1),
                           migrationData[i].originState),
                 migrationData[i].destinationState)

\* destData.totalIncome += flow.aggregatedIncome
RECURSIVE SumIncome(_, _, _)
SumIncome(migrationData, i, state) ==
  IF i = 0 THEN 0
  ELSE SumIncome(migrationData, i - 1, state)
       + (IF migrationData[i].destinationState = state
          THEN migrationData[i].aggregatedIncome ELSE 0)

\* an aggregation that never credits the destination state
aggregateMigrationByStateOriginOnly(migrationData) ==
  LET keys == StateKeys(migrationData, Len(migrationData))
  IN [k \in 1..Len(keys) |->
        LET out == SumReturns(migrationData, Len(migrationData), "originState", keys[k])
        IN [state |-> keys[k], inMigration |-> 0, outMigration |-> out,
            netMigration |-> 0 - out, totalIncome |-> 0]]

aggregateMigrationByState(migrationData) ==
  LET keys == StateKeys(migrationData, Len(migrationData))
  IN [k \in 1..Len(keys) |->
        LET inMigration ==
              SumReturns(migrationData, Len(migrationData), "destinationState", keys[k])
            outMigration ==
              SumReturns(migrationData, Len(migrationData), "originState", keys[k])
        IN [state |-> keys[k], inMigration |-> inMigration,
            outMigration |-> outMigration,
            netMigration |-> inMigration - outMigration,
            totalIncome |-> SumIncome(migrationData, Len(migrationData), keys[k])]]

\* aggregateMigrationByState and calculateNetMigration on the same flows
CallAggregateMigration ==
  /\ args.fn = "migrationByState"
  /\ Return([byState |-> aggregateMigrationByState(args.migrationData),
             county |-> calculateNetMigration(args.countyFips, args.migrationData)])

InitMigration ==
  /\ now = 0
  /\ args \in [fn : {"migrationByState"}, migrationData : FlowLists,
               countyFips : {MigrationFips(st, 150) : st \in MigrationStates}]
  /\ ret = <<>>
  /\ prevRet = <<>>
  /\ fetched = NoFetch
  /\ metrics = <<>>
  /\ realData = NoRealData
  /\ view = NoView
  /\ ui = NoUi
  /\ cache = NoCache
  /\ slider = NoSlider

NextMigration == CallAggregateMigration

SpecMigration == InitMigration /\ [][NextMigration]_vars

(***************************************************************************)
(* loadEnergyData and its module-level cache.  In this part the clock now  *)
(* counts half days, and a call is split at its await: the call reads the  *)
(* clock and tests the cache when it starts, and writes the cache when     *)
(* aggregateEnergyData resolves.  Calls in flight resolve in any order.    *)
(* cache.completed lists the loads in the order they wrote the cache, each *)
(* with the clock value of its start (now) and of its write (at), and      *)
(* cache.last is the latest call made.                                     *)
(***************************************************************************)
MaxCacheClock == 4
MaxCalls == 3

\* 24 * 60 * 60 * 1000 ms, in half days
CACHE_DURATION == 2

\* the array one invocation of aggregateEnergyData returns: always empty,
\* and a new object for each invocation
aggregateEnergyData(id) == [items |-> <<>>, loadedBy |-> id]

\* the early return of loadEnergyData with the TTL bound included
CacheHitInclusiveTtl(c, forceRefresh, callNow) ==
  /\ ~forceRefresh
  /\ c.cachedData # <<>>
  /\ callNow - c.cacheTimestamp <= CACHE_DURATION

\* !forceRefresh && cachedData && (now - cacheTimestamp) < CACHE_DURATION
CacheHit(c, forceRefresh, callNow) ==
  /\ ~forceRefresh
  /\ c.cachedData # <<>>
  /\ callNow - c.cacheTimestamp < CACHE_DURATION

InitCache ==
  /\ now = 0
  /\ args = [fn |-> "cache"]
  /\ ret = <<>>
  /\ prevRet = <<>>
  /\ fetched = NoFetch
  /\ metrics = <<>>
  /\ realData = NoRealData
  /\ view = NoView
  /\ ui = NoUi
  /\ cache = [loaded |-> TRUE, cachedData |-> <<>>, cacheTimestamp |-> 0,
              pending |-> {}, completed |-> <<>>, calls |-> 0, last |-> <<>>]
  /\ slider = NoSlider

\* loadEnergyData up to its return of the cached data or to its await
loadEnergyDataStart ==
  /\ cache.loaded
  /\ cache.calls < MaxCalls
  /\ \E forceRefresh \in BOOLEAN :
       LET id == cache.calls + 1
           hit == CacheHit(cache, forceRefresh, now)
           call == [id |-> id, now |-> now, forceRefresh |-> forceRefresh,
                    hit |-> hit,
                    returned |-> IF hit THEN cache.cachedData ELSE <<>>,
                    seen |-> Len(cache.completed)]
       IN cache' = [cache EXCEPT
                      !.calls = id,
                      !.last = <<call>>,
                      !.pending = IF hit THEN @ ELSE @ \cup {call}]
  /\ UNCHANGED <<now, args, ret, prevRet, fetched, metrics, realData, view, ui, slider>>

\* aggregateEnergyData resolves for one call in flight: the rest of
\* loadEnergyData, which stores the data with the clock value the call read
\* when it started
loadEnergyDataResolve ==
  /\ cache.loaded
  /\ \E call \in cache.pending :
       cache' = [cache EXCEPT
                   !.cachedData = <<aggregateEnergyData(call.id)>>,
                   !.cacheTimestamp = call.now,
                   !.pending = @ \ {call},
                   !.completed = Append(@, [id |-> call.id, now |-> call.now,
                                            at |-> now])]
  /\ UNCHANGED <<now, args, ret, prevRet, fetched, metrics, realData, view, ui, slider>>

\* Date.now() advances
CacheTick ==
  /\ cache.loaded
  /\ now < MaxCacheClock
  /\ now' = now + 1
  /\ UNCHANGED <<args, ret, prevRet, fetched, metrics, realData, view, ui, cache, slider>>

NextCache ==
  \/ loadEnergyDataStart
  \/ loadEnergyDataResolve
  \/ CacheTick

SpecCache == InitCache /\ [][NextCache]_vars


(***************************************************************************)
(* Scorer calls on the records of both paths, and the colour of a score.   *)
(***************************************************************************)
\* the record fetchEmergencyMetrics pushes for a county with sub-scores s
CombineMetricsPath(s) ==
  LET countyKey == <<"TX", "County 1">>
      countyFips == MockFips("TX", 5)
  IN MetricsRecord(countyKey, countyFips, CountyData(NoFetch, countyKey, countyFips),
                   [disasterStressScore |-> s.disaster,
                    energyStressScore |-> s.energy,
                    migrationStressScore |-> s.migration],
                   OverallStressScore(s.disaster, s.energy, s.migration))

\* the record of the real-data path for a county with sub-scores s: the
\* composite and tier of enrichCountiesWithDisasters, then
\* convertToEmergencyMetrics
CombineRealDataPath(s) ==
  ConvertCounty(
    [properties |->
       CountyFeature("Anderson", "TX", TexasFips \o <<0, 0, 1>>,
                     Rat(1, 4), R(50), R(120)).properties,
     emergencyMetrics |->
       EnrichedMetrics(<<>>, s.disaster, s.energy,
                       RealDataOverallScore(s.disaster, s.energy))])

CallCombine ==
  /\ args.fn = "combine"
  /\ Return([metrics |-> <<CombineMetricsPath(args.scores),
                           CombineMetricsPath(args.raised)>>,
             realData |-> <<CombineRealDataPath(args.scores),
                            CombineRealDataPath(args.raised)>>])

\* the scorer on a list and on the same list with more incident types
CallDiversity ==
  /\ args.fn = "diversity"
  /\ Return([before |-> calculateDisasterRiskScore(args.declarations, now),
             after |-> calculateDisasterRiskScore(args.diversified, now)])

\* RealMapView.tsx getColor
getColor(value, layerId) ==
  IF layerId = "forecast-pressure"
  THEN IF Ge(value, R(80)) THEN "#1e3a8a"
       ELSE IF Ge(value, R(60)) THEN "#1d4ed8"
       ELSE IF Ge(value, R(40)) THEN "#38bdf8"
       ELSE IF Ge(value, R(20)) THEN "#bae6fd"
       ELSE "#e0f2fe"
  ELSE IF Ge(value, R(80)) THEN "#991b1b"
       ELSE IF Ge(value, R(60)) THEN "#dc2626"
       ELSE IF Ge(value, R(40)) THEN "#f97316"
       ELSE IF Ge(value, R(20)) THEN "#93c5fd"
       ELSE "#1d4ed8"

\* AppEnhanced.tsx getLegendColor
getLegendColor(value, layerId) ==
  IF layerId = "forecast-pressure"
  THEN IF Ge(value, R(80)) THEN "#1e3a8a"
       ELSE IF Ge(value, R(60)) THEN "#1d4ed8"
       ELSE IF Ge(value, R(40)) THEN "#38bdf8"
       ELSE IF Ge(value, R(20)) THEN "#bae6fd"
       ELSE "#e0f2fe"
  ELSE IF Ge(value, R(80)) THEN "#991b1b"
       ELSE IF Ge(value, R(60)) THEN "#dc2626"
       ELSE IF Ge(value, R(40)) THEN "#f97316"
       ELSE IF Ge(value, R(20)) THEN "#93c5fd"
       ELSE "#1d4ed8"

\* the level shown with the value of a layer: the forecast level of a
\* forecast score, the stress level of an overall score
LevelLabel(value, layerId) ==
  IF layerId = "forecast-pressure" THEN getForecastLevel(value)
  ELSE RealDataStressLevel(value)

\* the fill colour, the legend colour and the level label of a score
CallColor ==
  /\ args.fn = "color"
  /\ Return([fillColor |-> getColor(args.score, args.layerId),
             legendColor |-> getLegendColor(args.score, args.layerId),
             level |-> LevelLabel(args.score, args.layerId)])

Next ==
  \/ CallDisasterRiskScore
  \/ CallEnergyStressScore
  \/ CallMigrationStressScore
  \/ CallStressLevel
  \/ CallSeasonalAdjustment
  \/ CallForecastScore
  \/ CallCombine
  \/ CallDiversity
  \/ CallColor
  \/ Tick

Spec == Init /\ [][Next]_vars

(***************************************************************************)
(* Properties of the scorer calls.                                         *)
(***************************************************************************)
Returned(fn) == args.fn = fn /\ ret # <<>>

WellFormedDates(declarations) ==
  \A i \in 1..Len(declarations) : declarations[i].declarationDate.valid

MinInt(a, b) == IF a < b THEN a ELSE b

\* sum over the records of max(0, 10 years - age), in time units
RECURSIVE DecaySum(_, _, _)
DecaySum(declarations, idx, at) ==
  IF idx = {} THEN 0
  ELSE LET i == CHOOSE j \in idx : TRUE
           age == at - declarations[i].declarationDate.t
           left == 10 * UnitsPerYear - age
       IN (IF left > 0 THEN left ELSE 0) + DecaySum(declarations, idx \ {i}, at)

\* C2: for every score the stress level of the metrics aggregator, the stress
\* level of the real-data aggregator and the forecast level are the same
\* label: Critical from 75, High from 50, Moderate from 25, Low otherwise.
C2_TieringIdentical ==
  Returned("tier") =>
    LET s == args.score
        level == IF ~IsNaN(s) /\ s.n >= 75 * s.d THEN "Critical"
                 ELSE IF ~IsNaN(s) /\ s.n >= 50 * s.d THEN "High"
                 ELSE IF ~IsNaN(s) /\ s.n >= 25 * s.d THEN "Moderate"
                 ELSE "Low"
    IN /\ ret[1].value.metrics = level
       /\ ret[1].value.realData = level
       /\ ret[1].value.forecast = level

\* the three cascades have labelled a score on a boundary
C2_Witness ==
  /\ Returned("tier")
  /\ args.score = R(75)
  /\ ret[1].value = [metrics |-> "Critical", realData |-> "Critical",
                     forecast |-> "Critical"]

ValidDemands(demands) == \A i \in 1..Len(demands) : demands[i].demand >= 0

\* C3: for valid inputs (non-negative demand and burden, population > 0, any
\* list of declarations) every scorer returns a value in [0,100].
C3_ScorersInRange ==
  /\ Returned("disaster") => InRange0to100(ret[1].value)
  /\ (Returned("energy") /\ ValidDemands(args.demands)
        /\ Ge(args.costs.totalEnergyBurden, R(0)))
       => InRange0to100(ret[1].value)
  /\ (Returned("migration") /\ args.totalPopulation > 0)
       => InRange0to100(ret[1].value)

\* the bound of C3 on the lists whose dates all parse: the divergence of C3
\* comes from unparseable dates alone
ScorersInRangeWellFormedDates ==
  (Returned("disaster") /\ WellFormedDates(args.declarations))
    => InRange0to100(ret[1].value)

\* C4: calculateDisasterRiskScore returns 0 for an empty list and otherwise
\* min(weightedCount/10, 1) * 60 + min(uniqueTypes/5, 1) * 40, weightedCount
\* being the sum of max(0, 1 - yearsSinceDeclaration/10) over the records.
C4_DisasterRiskFormula ==
  (Returned("disaster") /\ WellFormedDates(args.declarations)) =>
    LET ds == args.declarations
        v == ret[1].value
        unit == 100 * UnitsPerYear
        decay == DecaySum(ds, 1..Len(ds), ret[1].at)
        types == Cardinality({ds[i].incidentType : i \in 1..Len(ds)})
    IN /\ ~IsNaN(v)
       /\ Len(ds) = 0 => v = R(0)
       /\ Len(ds) > 0 =>
            v.n * unit = v.d * (MinInt(60 * decay, 60 * unit)
                                + unit * MinInt(8 * types, 40))

\* a list with a record older than ten years, a younger one and two types
\* has been scored, and its score is neither 0 nor saturated
C4_Witness ==
  /\ Returned("disaster")
  /\ WellFormedDates(args.declarations)
  /\ \E i, j \in 1..Len(args.declarations) :
       /\ ret[1].at - args.declarations[i].declarationDate.t >= 10 * UnitsPerYear
       /\ ret[1].at - args.declarations[j].declarationDate.t < 10 * UnitsPerYear
       /\ args.declarations[i].incidentType # args.declarations[j].incidentType
  /\ Gt(ret[1].value, R(8))
  /\ Lt(ret[1].value, R(100))

\* C5: two invocations of a scorer with identical input records return
\* identical scores, whenever they are invoked.
C5_ScorersDeterministic ==
  (ret # <<>> /\ prevRet # <<>>) => ret[1].value = prevRet[1].value

\* the claimed energy score: both components clamped to [0,40] and [0,60]
ClaimedEnergyScore(demands, costs) ==
  LET vals == {demands[i].demand : i \in 1..Len(demands)}
      peak == IF vals = {} THEN 0 ELSE CHOOSE m \in vals : \A x \in vals : x <= m
      total == SumDemand(demands, Len(demands))
      \* peak / average = peak * count / total
      peakRatio == IF total > 0 THEN Rat(peak * Len(demands), total) ELSE R(1)
      ratioScore == MathMax(R(0), MathMin(Mul(Sub(peakRatio, R(1)), R(50)), R(40)))
      burdenScore == MathMax(R(0), MathMin(Mul(costs.totalEnergyBurden, R(5)), R(60)))
  IN Add(ratioScore, burdenScore)

\* C6: calculateEnergyStressScore returns ratioScore + burdenScore with
\* ratioScore = clamp((peakRatio - 1) * 50, 0, 40) and burdenScore =
\* clamp(totalEnergyBurden * 5, 0, 60), both clamped below at 0.
C6_EnergyScoreClamped ==
  Returned("energy") =>
    ret[1].value = ClaimedEnergyScore(args.demands, args.costs)

\* the formula of C6 where the burden is not negative: the divergence of C6
\* comes from the missing lower clamp of the burden component alone
EnergyScoreFormulaNonNegativeBurden ==
  (Returned("energy") /\ Ge(args.costs.totalEnergyBurden, R(0))) =>
    ret[1].value = ClaimedEnergyScore(args.demands, args.costs)

\* the worked example of C6: peak 2000, average 1000, burden 8 gives 80
EnergyScoreWorkedExample ==
  (Returned("energy")
     /\ args.demands = <<EnergyDemand("TX", 2000), EnergyDemand("TX", 0)>>
     /\ args.costs.totalEnergyBurden = R(8))
    => ret[1].value = R(80)

\* C8: calculateMigrationStressScore returns 0 for population 0, 0 for any
\* netMigration >= 0 with population > 0, and otherwise
\* min(|netMigration / totalPopulation * 100| * 10, 100), which is exactly
\* 100 from a net migration of -10% of the population on.
C8_MigrationStressFormula ==
  Returned("migration") =>
    LET net == args.netMigration
        pop == args.totalPopulation
        v == ret[1].value
    IN /\ pop = 0 => v = R(0)
       /\ (pop > 0 /\ net >= 0) => v = R(0)
       /\ (pop > 0 /\ net < 0) =>
            IF 1000 * (-net) >= 100 * pop THEN v = R(100)
            ELSE /\ ~IsNaN(v)
                 /\ v.n * pop = v.d * 1000 * (-net)
       /\ (pop > 0 /\ 10 * (-net) >= pop) => v = R(100)

\* a net migration of exactly -10% of the population has been scored 100
C8_Witness ==
  /\ Returned("migration")
  /\ args.netMigration = -2000
  /\ args.totalPopulation = 20000
  /\ ret[1].value = R(100)

\* C9: a negative totalPopulation is rejected: the migration scorer never
\* returns a 0-100 score for it.
C9_NegativePopulationRejected ==
  (Returned("migration") /\ args.totalPopulation < 0)
    => ~InRange0to100(ret[1].value)

\* C10 as stated: 12 for June to September, 9 for December to February and
\* 5 for every other month.
C10_SeasonalHalfOpen ==
  Returned("seasonal") =>
    ret[1].value = (IF args.date.month \in {6, 7, 8, 9} THEN 12
                    ELSE IF args.date.month \in {12, 1, 2} THEN 9
                    ELSE 5)

\* C10 amended: 12 for June to October inclusive, 9 for December, January
\* and February, 5 for March, April, May and November, whatever the year.
C10_SeasonalAdjustment ==
  Returned("seasonal") =>
    ret[1].value = (IF args.date.month \in {6, 7, 8, 9, 10} THEN 12
                    ELSE IF args.date.month \in {12, 1, 2} THEN 9
                    ELSE 5)

\* the adjustment of an October date has been computed, and is 12
C10_Witness ==
  /\ Returned("seasonal")
  /\ args.date.month = 10
  /\ ret[1].value = 12

\* the claimed forecast, with the seasons and the saturation written out
ClaimedForecastScore(base, year, month, disasterCount) ==
  LET seasonalAdjustment == IF month \in {6, 7, 8, 9, 10} THEN 12
                            ELSE IF month \in {12, 1, 2} THEN 9 ELSE 5
      momentum == IF disasterCount * 4 >= 50 THEN R(10)
                  ELSE Rat(disasterCount * 4, 5)
      raw == Add(Add(base, R(seasonalAdjustment)),
                 Add(Rat(3 * (year - 2020), 2), momentum))
  IN IF Lt(raw, R(0)) THEN R(0) ELSE IF Gt(raw, R(100)) THEN R(100) ELSE raw

\* C11: getForecastScore returns clamp(base + seasonalAdjustment(date) +
\* (year(date) - 2020) x 1.5 + min(disasterCount x 0.8, 10), 0, 100) for every
\* county and every date of the time slider, so the forecast score is in
\* [0,100]; base 50 on 2020-01-01 with no disaster gives 59.
C11_ForecastScoreFormula ==
  Returned("forecast") =>
    LET m == args.county.emergencyMetrics
    IN /\ ret[1].value = ClaimedForecastScore(m.overallStressScore, args.date.year,
                                              args.date.month, m.disasterCount)
       /\ InRange0to100(ret[1].value)
       /\ (m.overallStressScore = R(50) /\ m.disasterCount = 0
             /\ args.date = [year |-> 2020, month |-> 1])
            => ret[1].value = R(59)

\* the forecast of base 50 with no disaster on 2020-01-01 has been computed
C11_Witness ==
  /\ Returned("forecast")
  /\ args.county = ForecastCounty(R(50), 0)
  /\ args.date = [year |-> 2020, month |-> 1]
  /\ ret[1].value = R(59)

\* score >= 70, on the integers of the rational
AtLeastSeventy(x) == ~IsNaN(x) /\ x.n >= 70 * x.d

\* C14: a record of the metrics-aggregator path has isTopStressed exactly
\* when its overallStressScore >= 70, a record of the real-data path exactly
\* when its stressLevel is Critical; every Critical record is top-stressed
\* on both paths.
C14_TopStressedByPath ==
  Returned("combine") =>
    \A k \in 1..2 :
      LET m == ret[1].value.metrics[k]
          r == ret[1].value.realData[k]
      IN /\ m.isTopStressed <=> AtLeastSeventy(m.overallStressScore)
         /\ r.isTopStressed <=> (r.stressLevel = "Critical")
         /\ m.stressLevel = "Critical" => m.isTopStressed
         /\ r.stressLevel = "Critical" => r.isTopStressed

\* sub-scores 75, 62.5, 100: the metrics record is at 75, Critical and
\* top-stressed, and the real-data record is at 70, High and not top-stressed
C14_Witness ==
  /\ Returned("combine")
  /\ ret[1].value.metrics[1].overallStressScore = R(75)
  /\ ret[1].value.metrics[1].stressLevel = "Critical"
  /\ ret[1].value.metrics[1].isTopStressed
  /\ ret[1].value.realData[1].overallStressScore = R(70)
  /\ ret[1].value.realData[1].stressLevel = "High"
  /\ ~ret[1].value.realData[1].isTopStressed

TierRank(level) ==
  IF level = "Low" THEN 0 ELSE IF level = "Moderate" THEN 1
  ELSE IF level = "High" THEN 2 ELSE 3

\* C15: raising one of the disaster, energy and migration sub-scores with
\* the others fixed never lowers overallStressScore and never lowers the
\* tier, on either path.
C15_CompositeMonotonic ==
  Returned("combine") =>
    LET v == ret[1].value
    IN /\ ~Lt(v.metrics[2].overallStressScore, v.metrics[1].overallStressScore)
       /\ ~Lt(v.realData[2].overallStressScore, v.realData[1].overallStressScore)
       /\ TierRank(v.metrics[2].stressLevel) >= TierRank(v.metrics[1].stressLevel)
       /\ TierRank(v.realData[2].stressLevel) >= TierRank(v.realData[1].stressLevel)
       /\ (\A k \in DOMAIN args.scores : ~IsNaN(args.scores[k])) =>
            /\ Ge(v.metrics[2].overallStressScore, v.metrics[1].overallStressScore)
            /\ Ge(v.realData[2].overallStressScore, v.realData[1].overallStressScore)

\* the migration sub-score has been raised: the metrics record went from
\* High to Critical and the real-data record kept its score
C15_Witness ==
  /\ Returned("combine")
  /\ Lt(args.scores.migration, args.raised.migration)
  /\ ret[1].value.metrics[1].stressLevel = "High"
  /\ ret[1].value.metrics[2].stressLevel = "Critical"
  /\ ret[1].value.realData[2].overallStressScore =
       ret[1].value.realData[1].overallStressScore

\* C16: with the number of records and their dates fixed, more distinct
\* incident types never decrease the disaster risk score.
C16_DiversityMonotonic ==
  Returned("diversity") =>
    /\ ~Lt(ret[1].value.after, ret[1].value.before)
    /\ WellFormedDates(args.declarations) =>
         Ge(ret[1].value.after, ret[1].value.before)

\* a list with more incident types, the same length and the same dates has
\* been scored strictly higher
C16_Witness ==
  /\ Returned("diversity")
  /\ Len(args.declarations) = Len(args.diversified)
  /\ \A i \in 1..Len(args.declarations) :
       args.declarations[i].declarationDate = args.diversified[i].declarationDate
  /\ DistinctTypes(args.diversified) > DistinctTypes(args.declarations)
  /\ Gt(ret[1].value.after, ret[1].value.before)

\* the declarations with every unparseable date replaced by the date at
AsDeclaredNow(declarations, at) ==
  [i \in 1..Len(declarations) |->
     IF declarations[i].declarationDate.valid THEN declarations[i]
     ELSE [declarations[i] EXCEPT !.declarationDate = [valid |-> TRUE, t |-> at]]]

\* C17: a record whose declaration date does not parse is scored as if
\* declared now, with recency weight 1, and the score is a number in [0,100].
C17_MalformedDateTreatedAsNow ==
  (Returned("disaster") /\ ~WellFormedDates(args.declarations)) =>
    /\ ret[1].value =
         calculateDisasterRiskScore(AsDeclaredNow(args.declarations, ret[1].at),
                                    ret[1].at)
    /\ InRange0to100(ret[1].value)

\* C20: two scores with the same level label have the same choropleth
\* colour, on the map and in the legend, so that the colour changes only
\* where the label changes, at 25, 50 and 75.
C20_ColourFollowsTier ==
  Returned("color") =>
    \A other \in ScoreValues :
      LevelLabel(other, args.layerId) = ret[1].value.level =>
        /\ getColor(other, args.layerId) = ret[1].value.fillColor
        /\ getLegendColor(other, args.layerId) = ret[1].value.legendColor

\* the map and the legend give a score the same colour
MapAndLegendColourAgree ==
  Returned("color") => ret[1].value.fillColor = ret[1].value.legendColor

(***************************************************************************)
(* Properties of the records of fetchEmergencyMetrics.                     *)
(***************************************************************************)
\* C1: every record of fetchEmergencyMetrics has overallStressScore =
\* 0.4 * disasterStressScore + 0.4 * energyStressScore
\* + 0.2 * migrationStressScore, and the overall score lies in [0,100].
C1_OverallWeightedSum ==
  \A i \in 1..Len(metrics) :
    LET r == metrics[i]
    IN /\ Mul(r.overallStressScore, R(10)) =
            Add(Add(Mul(R(4), r.disasterStressScore), Mul(R(4), r.energyStressScore)),
                Mul(R(2), r.migrationStressScore))
       /\ InRange0to100(r.overallStressScore)

\* a record whose three sub-scores are all positive and whose overall score
\* is 92 = 0.4 * 100 + 0.4 * 80 + 0.2 * 100 has been produced
C1_Witness ==
  \E i \in 1..Len(metrics) :
    /\ metrics[i].disasterStressScore = R(100)
    /\ metrics[i].energyStressScore = R(80)
    /\ metrics[i].migrationStressScore = R(100)
    /\ metrics[i].overallStressScore = R(92)

CostsOfRecord(r) ==
  LET IsCounty(c) == c.state = r.state /\ c.county = r.county
  IN SelectSeq(fetched.coolingWarmingCosts, IsCounty)

DemandsOfRecord(r) ==
  LET InState(x) == x.state = r.state
  IN SelectSeq(fetched.energyDemand, InState)

\* C7: a region with a burden record and no demand samples has an energy
\* stress score equal to its burden component, and a region with demand
\* samples and no burden record has one equal to its ratio component.
C7_MissingInputKeepsOtherComponent ==
  \A i \in 1..Len(metrics) :
    LET r == metrics[i]
        costs == CostsOfRecord(r)
        demands == DemandsOfRecord(r)
    IN /\ (Len(costs) > 0 /\ Len(demands) = 0) =>
            r.energyStressScore =
              MathMax(R(0), MathMin(Mul(costs[1].totalEnergyBurden, R(5)), R(60)))
       /\ (Len(costs) = 0 /\ Len(demands) > 0) =>
            r.energyStressScore = MathMax(R(0), RatioScore(demands))

\* the latest call was getTopStressedAreas(metrics, limit)
TopStressedReturned ==
  /\ args.fn = "metrics"
  /\ ret # <<>>
  /\ "limit" \in DOMAIN ret[1]

\* the number of elements of the sequence s equal to the record m
Occurrences(s, m) == Cardinality({i \in 1..Len(s) : s[i] = m})

\* C22: fetchEmergencyMetrics returns its records in non-increasing order
\* of overallStressScore; getTopStressedAreas(metrics, limit) on that result
\* returns at most limit records, each with isTopStressed = true and each a
\* record of metrics, and no top-stressed record it omits has a higher
\* overallStressScore than a record it returns.
C22_TopStressedAreNeverOutranked ==
  /\ \A i, j \in 1..Len(metrics) :
       i < j => Ge(metrics[i].overallStressScore, metrics[j].overallStressScore)
  /\ TopStressedReturned =>
       LET top == ret[1].value
           limit == ret[1].limit
       IN /\ Len(top) <= limit
          /\ \A k \in 1..Len(top) :
               /\ top[k].isTopStressed
               /\ Occurrences(top, top[k]) <= Occurrences(metrics, top[k])
          /\ \A i \in 1..Len(metrics) :
               (/\ metrics[i].isTopStressed
                /\ Occurrences(top, metrics[i]) < Occurrences(metrics, metrics[i]))
               => \A k \in 1..Len(top) :
                    Le(metrics[i].overallStressScore, top[k].overallStressScore)

\* two top-stressed records with different scores were produced, the
\* lower-scored one pushed first, and getTopStressedAreas(metrics, 1)
\* returned the higher-scored one alone
C22_Witness ==
  /\ TopStressedReturned
  /\ ret[1].limit = 1
  /\ Len(ret[1].value) = 1
  /\ \E i \in 1..Len(metrics) :
       /\ metrics[i].isTopStressed
       /\ Lt(metrics[i].overallStressScore, ret[1].value[1].overallStressScore)


(***************************************************************************)
(* Properties of the real-data path.                                       *)
(***************************************************************************)
\* a load has completed without error
Loaded == view.mounted /\ ~view.loading /\ view.error = <<>>

\* the positions, in what the FEMA API holds, of the declarations of a FIPS
\* code whose request did not fail
ArrivedFor(fips) ==
  { j \in 1..Len(realData.declarations) :
      /\ realData.declarations[j].fyDeclared \notin realData.failedYears
      /\ realData.declarations[j].fipsStateCode \o
           realData.declarations[j].fipsCountyCode = fips }

\* C12: on the real-data path the disaster stress score of a county is
\* min(disasterCount x 5 + uniqueTypeCount x 10, 100), over the declarations
\* grouped under the FIPS code of the county; without declarations it is 0.
C12_RealDataDisasterScore ==
  Loaded =>
    \A i \in 1..Len(view.counties) :
      LET c == view.counties[i]
          arrived == ArrivedFor(c.properties.fips)
          disasterCount == Cardinality(arrived)
          uniqueTypeCount ==
            Cardinality({realData.declarations[j].incidentType : j \in arrived})
          sum == disasterCount * 5 + uniqueTypeCount * 10
      IN /\ c.emergencyMetrics.disasterCount = disasterCount
         /\ c.emergencyMetrics.disasterStressScore =
              (IF sum > 100 THEN R(100) ELSE R(sum))
         /\ disasterCount = 0 => c.emergencyMetrics.disasterStressScore = R(0)

\* a county with MaxDecl declarations of six types is loaded, at the cap 100,
\* next to a county without declarations, at 0
C12_Witness ==
  /\ Loaded
  /\ \E i \in 1..Len(view.counties) :
       /\ view.counties[i].emergencyMetrics.disasterCount = MaxDecl
       /\ Cardinality(view.counties[i].emergencyMetrics.disasterTypes) = 6
       /\ view.counties[i].emergencyMetrics.disasterStressScore = R(100)
  /\ \E i \in 1..Len(view.counties) :
       /\ view.counties[i].emergencyMetrics.disasterCount = 0
       /\ view.counties[i].emergencyMetrics.disasterStressScore = R(0)

\* C13: on the real-data path overallStressScore = 0.6 x disasterStressScore
\* + 0.4 x energyStressScore, without a migration term, and it lies in
\* [0,100] for every county whose intensity and percentile are not negative.
C13_RealDataComposite ==
  Loaded =>
    /\ \A i \in 1..Len(view.counties) :
         LET c == view.counties[i]
             m == c.emergencyMetrics
         IN /\ Mul(m.overallStressScore, R(10)) =
                 Add(Mul(R(6), m.disasterStressScore), Mul(R(4), m.energyStressScore))
            /\ (Ge(c.properties.avgIntensity, R(0)) /\ Ge(c.properties.percentile, R(0)))
                 => InRange0to100(m.overallStressScore)
    /\ \A i \in 1..Len(metrics) :
         /\ metrics[i].migrationStressScore = R(0)
         /\ Mul(metrics[i].overallStressScore, R(10)) =
              Add(Mul(R(6), metrics[i].disasterStressScore),
                  Mul(R(4), metrics[i].energyStressScore))

\* a county with both sub-scores positive and different has been converted:
\* disaster 45, energy 75, overall 57
C13_Witness ==
  /\ Loaded
  /\ \E i \in 1..Len(metrics) :
       /\ metrics[i].disasterStressScore = R(45)
       /\ metrics[i].energyStressScore = R(75)
       /\ metrics[i].overallStressScore = R(57)

\* the counties a view shows after a load in which the FEMA API answered
\* every request and holds no declaration at all
CountiesWithConfirmedZero ==
  LET enrichedCounties == enrichCountiesWithDisasters(realData.counties, <<>>)
  IN IF view.selectedState # <<>>
     THEN filterCountiesByState(enrichedCounties, view.selectedState[1])
     ELSE enrichedCounties

\* C18: after a load in which the FEMA requests failed, what the view holds
\* differs from what it holds after a load that confirmed zero declarations:
\* unknown is told apart from zero.
C18_FailedFetchDistinguishable ==
  (Loaded /\ realData.failedYears = FetchYears) =>
    view.counties # CountiesWithConfirmedZero

FipsOfCounties(counties) == [i \in 1..Len(counties) |-> counties[i].properties.fips]

\* the counties of the files that a load for selectedState keeps
CountiesFor(selectedState) ==
  IF selectedState # <<>>
  THEN filterCountiesByState(realData.counties, selectedState[1])
  ELSE realData.counties

AllLoadsCompleted ==
  view.mounted /\ view.loadsStarted > 0 /\ view.inFlight = <<>>

\* C28: once all loads have completed without an error showing, the
\* counties and the nightlight points held in state are those filtered for
\* the latest selectedState, whatever order the loads completed in.
C28_LatestSelectionShown ==
  (AllLoadsCompleted /\ view.error = <<>>) =>
    /\ FipsOfCounties(view.counties) = FipsOfCounties(CountiesFor(view.selectedState))
    /\ view.nightlightData = FilteredNightlight(realData.nightlight, view.selectedState)

\* the same for a view that started a single load
C28_SingleLoadShown ==
  view.mounted /\ view.loadsStarted = 1 => C28_LatestSelectionShown

\* C29: loading is true whenever a load started by the effect has not
\* completed, it is false once every load has completed, and a failed load
\* sets error to a message and leaves the counties shown before unchanged.
C29_LoadingTracksInFlight ==
  view.mounted =>
    /\ view.inFlight # <<>> => view.loading
    /\ AllLoadsCompleted => ~view.loading
    /\ (view.settled # <<>> /\ ~view.settled[1].ok) =>
         /\ view.error # <<>>
         /\ view.counties = view.settled[1].counties

\* the parts of C29 that do not depend on the order of completion
C29_CompletedLoadsAndFailures ==
  view.mounted =>
    /\ AllLoadsCompleted => ~view.loading
    /\ (view.settled # <<>> /\ ~view.settled[1].ok) =>
         /\ view.error # <<>>
         /\ view.counties = view.settled[1].counties


(***************************************************************************)
(* Properties of the map.                                                  *)
(***************************************************************************)
\* the latest two forecasts were made on the same (baseScore, date,
\* disasterCount) triple
SameTriple ==
  /\ args.fn = "map" /\ ret # <<>> /\ prevRet # <<>>
  /\ ret[1].value.baseScore = prevRet[1].value.baseScore
  /\ ret[1].value.date = prevRet[1].value.date
  /\ ret[1].value.disasterCount = prevRet[1].value.disasterCount

\* C19: the forecast is pure: two calls on the same (baseScore, date,
\* disasterCount) triple return the same score, whatever calls, layer
\* toggles and county selections came before.
C19_ForecastPure ==
  SameTriple => ret[1].value.forecastScore = prevRet[1].value.forecastScore

\* two forecasts on the same triple have been made for different counties,
\* with the forecast layer toggled and another county selected in between
C19_Witness ==
  /\ SameTriple
  /\ ret[1].value.fips # prevRet[1].value.fips
  /\ ret[1].value.forecastLayer # prevRet[1].value.forecastLayer
  /\ ret[1].value.selectedCounty # prevRet[1].value.selectedCounty
  /\ ret[1].value.forecastScore = prevRet[1].value.forecastScore

(***************************************************************************)
(* Properties of the cache of loadEnergyData.                              *)
(***************************************************************************)
LastCall == cache.last[1]

\* the load that had last written the cache when the latest call was made
LoadSeenByLastCall == cache.completed[LastCall.seen]

DataReturnedFrom(load) == <<aggregateEnergyData(load.id)>>

\* each completed load replaced the cached data and timestamp: the cache
\* holds the data and the start time of the load that wrote last
CacheHoldsLastWrite ==
  cache.completed # <<>> =>
    LET load == cache.completed[Len(cache.completed)]
    IN /\ cache.cachedData = DataReturnedFrom(load)
       /\ cache.cacheTimestamp = load.now

\* C21 as stated: the 24 hours run from the moment the last load
\* completed.  A call without forceRefresh made less than 24 hours after
\* that moment returns the cached data without invoking
\* aggregateEnergyData; every other call invokes it, and a completed load
\* replaces the cached data and timestamp.
C21_TtlFromLoadCompletion ==
  /\ CacheHoldsLastWrite
  /\ (cache.loaded /\ cache.last # <<>>) =>
       LET fresh == /\ ~LastCall.forceRefresh
                    /\ LastCall.seen > 0
                    /\ LastCall.now - LoadSeenByLastCall.at < CACHE_DURATION
       IN IF fresh
          THEN /\ LastCall.hit
               /\ LastCall.returned = DataReturnedFrom(LoadSeenByLastCall)
          ELSE ~LastCall.hit

\* C21 amended: the 24 hours run from the start of the call whose load
\* last wrote the cache (the clock value that call read on entry).  A call
\* without forceRefresh made less than 24 hours after that start returns
\* the cached data without invoking aggregateEnergyData; a call 24 hours or
\* more after it, a call with forceRefresh and a call before any load has
\* completed invoke it, and a completed load replaces the cached data and
\* timestamp.
C21_TtlFromLoadStart ==
  /\ CacheHoldsLastWrite
  /\ (cache.loaded /\ cache.last # <<>>) =>
       LET fresh == /\ ~LastCall.forceRefresh
                    /\ LastCall.seen > 0
                    /\ LastCall.now - LoadSeenByLastCall.now < CACHE_DURATION
       IN IF fresh
          THEN /\ LastCall.hit
               /\ LastCall.returned = DataReturnedFrom(LoadSeenByLastCall)
          ELSE ~LastCall.hit

\* a call without forceRefresh reloaded, and its load completed, because
\* the load that had written the cache started exactly 24 hours before
C21_Witness ==
  /\ cache.loaded
  /\ cache.last # <<>>
  /\ ~LastCall.forceRefresh
  /\ LastCall.seen > 0
  /\ ~LastCall.hit
  /\ LastCall.now - LoadSeenByLastCall.now = CACHE_DURATION
  /\ \E load \in {cache.completed[i] : i \in 1..Len(cache.completed)} :
       load.id = LastCall.id


\* C27: under any interleaving of concurrent loadEnergyData calls,
\* cacheTimestamp never decreases (each load that writes the cache started
\* no earlier than the load that wrote before it), and once every call has
\* completed cachedData is the result of the load that started last.
C27_LatestStartedLoadWins ==
  cache.loaded =>
    LET done == cache.completed
    IN /\ \A i, j \in 1..Len(done) : i < j => done[i].now <= done[j].now
       /\ (cache.pending = {} /\ done # <<>>) =>
            \E i \in 1..Len(done) :
              /\ \A j \in 1..Len(done) : done[j].id <= done[i].id
              /\ cache.cachedData = DataReturnedFrom(done[i])


(***************************************************************************)
(* Properties of the layer panel.                                          *)
(***************************************************************************)
EnabledChoropleths(layers) ==
  {i \in 1..Len(layers) : layers[i].type = "choropleth" /\ layers[i].enabled}

\* C23: starting from the initial layer list, after any sequence of
\* handleLayerToggle calls at most one layer of type choropleth is enabled.
C23_AtMostOneChoropleth ==
  ("layers" \in DOMAIN ui) => Cardinality(EnabledChoropleths(ui.layers)) <= 1

\* enabling forecast-pressure while county-choropleth was the enabled
\* choropleth layer left forecast-pressure as the only enabled one
C23_Witness ==
  /\ "toggled" \in DOMAIN ui
  /\ ui.toggled # <<>>
  /\ ui.toggled[1].layerId = "forecast-pressure"
  /\ ui.toggled[1].enabled
  /\ LayerEnabled(ui.toggled[1].prevLayers, "county-choropleth")
  /\ LayerEnabled(ui.layers, "forecast-pressure")
  /\ ~LayerEnabled(ui.layers, "county-choropleth")

\* C24: a toggle of a symbols layer changes only that layer's enabled
\* flag, a toggle that disables a layer changes no other layer, and in
\* every toggle a layer other than the toggled one changes only by a
\* choropleth layer being disabled when a choropleth layer is enabled.
C24_SymbolToggleChangesOnlyItself ==
  ("toggled" \in DOMAIN ui /\ ui.toggled # <<>>) =>
    LET t == ui.toggled[1]
        symbols == LET i == CHOOSE k \in 1..Len(ui.layers) : ui.layers[k].id = t.layerId
                   IN ui.layers[i].type = "symbols"
    IN \A i \in 1..Len(ui.layers) :
         /\ ui.layers[i].id = t.layerId => ui.layers[i].enabled = t.enabled
         /\ ui.layers[i].id # t.layerId =>
              \/ ui.layers[i] = t.prevLayers[i]
              \/ /\ t.enabled
                 /\ ~symbols
                 /\ ui.layers[i].type = "choropleth"
                 /\ ui.layers[i] = [t.prevLayers[i] EXCEPT !.enabled = FALSE]


(***************************************************************************)
(* Properties of TimeSlider.                                               *)
(***************************************************************************)
\* C25: with currentDate starting within [minDate, maxDate], after any
\* interleaving of auto-advance ticks, play/pause toggles and slider
\* changes, every date passed to onDateChange lies within
\* [minDate, maxDate].
C25_EmittedDatesInRange ==
  (slider.mounted /\ slider.emitted # <<>>) =>
    /\ slider.minDate <= slider.emitted[1]
    /\ slider.emitted[1] <= slider.maxDate

\* a tick from a date strictly inside the range, whose step passed maxDate,
\* handed minDate to onDateChange
C25_Witness ==
  /\ slider.mounted
  /\ slider.last # <<>>
  /\ slider.last[1].event = "tick"
  /\ slider.last[1].stops
  /\ slider.last[1].from # slider.maxDate
  /\ slider.last[1].from > slider.minDate
  /\ slider.emitted = <<slider.minDate>>


TickedLast == slider.mounted /\ slider.last # <<>> /\ slider.last[1].event = "tick"

\* to lies one step after from: one hour, one day or one week later, or at
\* the same hour of a day of the calendar month that follows the month of
\* from
OneStepLater(from, to, stepSize) ==
  CASE stepSize = "hour" -> to = from + 1
    [] stepSize = "day" -> to = from + 24
    [] stepSize = "week" -> to = from + 7 * 24
    [] stepSize = "month" ->
         LET a == CivilOf(from)
             b == CivilOf(to)
         IN /\ b.hour = a.hour
            /\ IF a.month = 12 THEN b.year = a.year + 1 /\ b.month = 1
               ELSE b.year = a.year /\ b.month = a.month + 1

\* C26 (each tick): while playing with no user input, a tick advances
\* currentDate by exactly one step of stepSize; a tick whose step would
\* pass maxDate stops playback (playing and the parent's isPlaying become
\* false) and resets the date to minDate.
C26_TickAdvancesOneStep ==
  TickedLast =>
    LET t == slider.last[1]
    IN IF t.stops
       THEN /\ ~slider.playing
            /\ ~slider.isPlaying
            /\ slider.currentDate = slider.minDate
       ELSE /\ slider.playing
            /\ OneStepLater(t.from, slider.currentDate, slider.stepSize)
            /\ slider.currentDate <= slider.maxDate

\* the tick of C26 for the steps of fixed length: hour, day and week
C26_FixedLengthStepsAdvanceOneStep ==
  slider.stepSize # "month" => C26_TickAdvancesOneStep

\* C26 (termination): playback with no user input eventually stops with
\* the date reset to minDate, and the date never changes while not playing
C26_PlaybackStops ==
  (slider.mounted /\ slider.playing) ~>
    (~slider.playing /\ slider.currentDate = slider.minDate)

C26_NoTickWhilePaused ==
  [][(slider.mounted /\ ~slider.playing) => slider' = slider]_vars


(***************************************************************************)
(* Properties of the migration aggregation.                                *)
(***************************************************************************)
RECURSIVE SumOfField(_, _, _)
SumOfField(entries, i, field) ==
  IF i = 0 THEN 0 ELSE SumOfField(entries, i - 1, field) + entries[i][field]

\* C30: aggregateMigrationByState yields one entry for each state that
\* occurs in a flow, with netMigration = inMigration - outMigration, the netMigration of all states sums to 0,
\* the inMigration and the outMigration of all states both sum to the total
\* numberOfReturns, and calculateNetMigration returns netMigration =
\* inMigration - outMigration for a county.
C30_MigrationConserved ==
  Returned("migrationByState") =>
    LET byState == ret[1].value.byState
        county == ret[1].value.county
        flows == args.migrationData
        total == SumOfField(flows, Len(flows), "numberOfReturns")
    IN /\ \A k \in 1..Len(byState) :
            byState[k].netMigration = byState[k].inMigration - byState[k].outMigration
       /\ \A st \in MigrationStates :
            (\E i \in 1..Len(flows) : st \in {flows[i].originState, flows[i].destinationState})
              <=> (\E k \in 1..Len(byState) : byState[k].state = st)
       /\ \A k, l \in 1..Len(byState) : byState[k].state = byState[l].state => k = l
       /\ SumOfField(byState, Len(byState), "netMigration") = 0
       /\ SumOfField(byState, Len(byState), "inMigration") = total
       /\ SumOfField(byState, Len(byState), "outMigration") = total
       /\ county.netMigration = county.inMigration - county.outMigration

\* three flows of different sizes, one of them inside a state, aggregated
\* into two states with a net gain of one and an equal net loss of the other
C30_Witness ==
  /\ Returned("migrationByState")
  /\ Len(args.migrationData) = 3
  /\ \E i \in 1..3 : args.migrationData[i].originState = args.migrationData[i].destinationState
  /\ Len(ret[1].value.byState) = 2
  /\ ret[1].value.byState[1].netMigration > 0
  /\ ret[1].value.byState[2].netMigration = 0 - ret[1].value.byState[1].netMigration
  /\ ret[1].value.county.netMigration # 0

====
